---- MODULE Spec2Model ----
(***************************************************************************)
(* A model of the connect-resources report and its helpers:                *)
(*   - fetch_all_paginated          (src/app/pagination_helper.py)         *)
(*   - categorize_email_provider    (src/app/provider_analyzer.py)         *)
(*   - analyze_provider_breakdown   (src/app/provider_analyzer.py)         *)
(*   - main and the three tabs      (src/connect_resources_report.py)      *)
(*                                                                         *)
(* Python values are represented as follows.                               *)
(*   str    a tuple of one-character strings when the code looks inside    *)
(*          the string (split, lower, in), a TLA+ string otherwise         *)
(*   dict   a function whose domain is the set of keys present             *)
(*   list   a tuple                                                        *)
(*   None   the value PyNone; a value that may be None carries its type   *)
(***************************************************************************)
EXTENDS Integers, Sequences, FiniteSets, TLC

VARIABLES
    \* ---- fetch_all_paginated -------------------------------------------
    max_pages,        \* argument max_pages
    initial_params,   \* argument initial_params (None or a dict)
    all_items,        \* local all_items
    cursor,           \* local cursor
    page,             \* local page
    fpc,              \* position in fetch_all_paginated
    requests,         \* params of every client.request call made, in order
    responses,        \* every response client.request returned, in order
    failed,           \* indices of the requests on which client.request raised
    fetch_result,     \* what the caller of fetch_all_paginated got
    \* ---- categorize_email_provider -------------------------------------
    email,            \* argument email
    provider,         \* value returned ("pending" before the call)
    \* ---- analyze_provider_breakdown ------------------------------------
    test_results,     \* argument test_results (a dict)
    recipients,       \* local recipients
    provider_stats,   \* local provider_stats
    idx,              \* position of the for loop in recipients
    apc,              \* position in analyze_provider_breakdown
    analyze_result,   \* what the caller of analyze_provider_breakdown got
    \* ---- connect_resources_report.py: main -----------------------------
    campaigns,          \* data['campaigns']
    campaign_analytics, \* data['campaign_analytics']
    accounts,           \* data['accounts']
    account_analytics,  \* data['account_analytics']
    today,              \* datetime.date.today()
    rpc,                \* position in main
    year_data,          \* year_data of create_master_dashboard
    all_time_totals,    \* all_time_totals of create_master_dashboard
    week_camp_data,     \* week_camp_data of create_campaigns_tab
    agent_data,         \* agent_data of create_agents_tab
    sheet,              \* the rows written to each tab of the spreadsheet
    worksheets,         \* the state of each tab's worksheet in the spreadsheet
    digest,             \* the metrics of the email digest
    \* ---- connect_resources_report.py: fetch_all_data -------------------
    dpc,                \* position in fetch_all_data
    skip,               \* local skip of the campaigns loop
    n_campaigns,        \* len(campaigns)
    starting_after,     \* local starting_after of the accounts loop
    n_accounts,         \* len(accounts)
    list_resp           \* local resp: the response being handled

fetchVars == <<max_pages, initial_params, all_items, cursor, page, fpc,
               requests, responses, failed, fetch_result>>
catVars   == <<email, provider>>
anaVars   == <<test_results, recipients, provider_stats, idx, apc,
               analyze_result>>
repVars   == <<campaigns, campaign_analytics, accounts, account_analytics,
               today, rpc, year_data, all_time_totals, week_camp_data,
               agent_data, sheet, worksheets, digest>>
dataVars  == <<dpc, skip, n_campaigns, starting_after, n_accounts, list_resp>>
vars      == <<fetchVars, catVars, anaVars, repVars, dataVars>>

-----------------------------------------------------------------------------
(* Python values                                                           *)

PyNone == [type |-> "NoneType"]
PyStr(s) == [type |-> "str", value |-> s]
PyInt(n) == [type |-> "int", value |-> n]
PyDict(d) == [type |-> "dict", value |-> d]
PyList(l) == [type |-> "list", value |-> l]

\* {}: the function with no key
EmptyDict == [k \in {} |-> PyNone]

\* d.get(key, default) of the keys-to-values function d
Get(d, key, default) == IF key \in DOMAIN d THEN d[key] ELSE default

\* d[key] = value
SetItem(d, key, value) ==
    [k \in (DOMAIN d) \cup {key} |-> IF k = key THEN value ELSE d[k]]

\* bool(v) of None, a str or a dict
Truthy(v) ==
    CASE v.type = "NoneType" -> FALSE
      [] v.type = "str"      -> v.value # ""
      [] v.type = "dict"     -> DOMAIN v.value # {}
      [] OTHER               -> TRUE

-----------------------------------------------------------------------------
(* fetch_all_paginated                                                     *)

MaxPagesBound == 4

\* Values of the initial_params argument.
InitialParamsValues ==
    { PyNone,
      PyDict(EmptyDict),
      PyDict([k \in {"limit"} |-> PyInt(100)]),
      PyDict([k \in {"limit", "starting_after"} |->
                 IF k = "limit" THEN PyInt(100) ELSE PyStr("c0")]) }

\* The item lists a page can carry.
PageItems == { <<>>, <<"a">>, <<"b", "a">> }

\* The next_starting_after values a page can carry.
CursorValues == { PyNone, PyStr(""), PyStr("c1"), PyStr("c2") }

\* JSON objects the endpoint can answer with: 'items' and
\* 'next_starting_after' are each present or absent.
DictResponses ==
    { EmptyDict }
    \cup { [k \in {"items"} |-> its] : its \in PageItems }
    \cup { [k \in {"next_starting_after"} |-> c] : c \in CursorValues }
    \cup { [k \in {"items", "next_starting_after"} |->
              IF k = "items" THEN its ELSE c] : its \in PageItems, c \in CursorValues }

\* InstantlyClient.request returns the parsed JSON, or response.text when the
\* body is not JSON.
Responses ==
    { PyDict(d) : d \in DictResponses } \cup { PyStr("<html>") }

InitFetchLocals ==
    /\ all_items = <<>>
    /\ cursor = PyNone
    /\ page = 1
    /\ fpc = "loop"
    /\ requests = <<>>
    /\ responses = <<>>
    /\ failed = <<>>
    /\ fetch_result = [kind |-> "none"]

\* while page <= max_pages
LoopGuardOffByOne == page <= max_pages + 1
LoopGuard == page <= max_pages

\* params = initial_params.copy() if initial_params else {}
\* if cursor: params['starting_after'] = cursor
BuildParamsDropCursor(ip, cur) == IF Truthy(ip) THEN ip.value ELSE EmptyDict
BuildParams(ip, cur) ==
    LET params == IF Truthy(ip) THEN ip.value ELSE EmptyDict
    IN  IF Truthy(cur) THEN SetItem(params, "starting_after", cur) ELSE params

\* all_items.extend(items)
ExtendDedup(acc, items) ==
    acc \o SelectSeq(items, LAMBDA x : \A i \in 1..Len(acc) : acc[i] # x)
Extend(acc, items) == acc \o items

\* The loop test succeeds: build params and call client.request.
Request ==
    /\ fpc = "loop"
    /\ LoopGuard
    /\ requests' = Append(requests, BuildParams(initial_params, cursor))
    /\ fpc' = "await"
    /\ UNCHANGED <<max_pages, initial_params, all_items, cursor, page,
                   responses, failed, fetch_result>>

\* The loop test fails: fall out of the while loop.
LoopEnd ==
    /\ fpc = "loop"
    /\ ~LoopGuard
    /\ fpc' = "exit"
    /\ UNCHANGED <<max_pages, initial_params, all_items, cursor, page,
                   requests, responses, failed, fetch_result>>

\* The body of the loop after client.request returned the dict resp.
HandlePageNoEmptyBreak(resp) ==
    LET items == Get(resp, "items", <<>>)
        next  == Get(resp, "next_starting_after", PyNone)
    IN  /\ all_items' = Extend(all_items, items)
        /\ cursor' = next
        /\ IF ~Truthy(next)
              THEN fpc' = "exit" /\ page' = page
              ELSE fpc' = "loop" /\ page' = page + 1
HandlePage(resp) ==
    LET items == Get(resp, "items", <<>>)
        next  == Get(resp, "next_starting_after", PyNone)
    IN  IF items = <<>>
           THEN \* if not items: break
                /\ fpc' = "exit"
                /\ UNCHANGED <<all_items, cursor, page>>
           ELSE /\ all_items' = Extend(all_items, items)
                /\ cursor' = next
                /\ IF ~Truthy(next)
                      THEN \* if not cursor: break
                           fpc' = "exit" /\ page' = page
                      ELSE fpc' = "loop" /\ page' = page + 1

\* client.request returns a JSON object.
Respond ==
    /\ fpc = "await"
    /\ \E r \in Responses :
          /\ r.type = "dict"
          /\ responses' = Append(responses, r)
          /\ HandlePage(r.value)
    /\ UNCHANGED <<max_pages, initial_params, requests, failed, fetch_result>>

\* client.request returns response.text: response.get raises AttributeError,
\* which nothing in fetch_all_paginated catches.
RespondText ==
    /\ fpc = "await"
    /\ \E r \in Responses :
          /\ r.type = "str"
          /\ responses' = Append(responses, r)
    /\ fpc' = "raised"
    /\ fetch_result' = [kind |-> "error", error |-> "AttributeError"]
    /\ UNCHANGED <<max_pages, initial_params, all_items, cursor, page,
                   requests, failed>>

\* What fetch_all_paginated does with an exception raised by client.request:
\* there is no try around the call, the exception leaves the function.
OnTransportErrorRetry ==
    /\ fpc' = "loop"
    /\ fetch_result' = fetch_result
OnTransportErrorReturnPartial ==
    /\ fpc' = "exit"
    /\ fetch_result' = fetch_result
OnTransportError ==
    /\ fpc' = "raised"
    /\ fetch_result' = [kind |-> "error", error |-> "TransportError"]

\* client.request raises (HTTPError or RuntimeError).
Raise ==
    /\ fpc = "await"
    /\ failed' = Append(failed, Len(requests))
    /\ OnTransportError
    /\ UNCHANGED <<max_pages, initial_params, all_items, cursor, page,
                   requests, responses>>

\* return all_items
ReturnValue == [kind |-> "value", value |-> all_items]

Return ==
    /\ fpc = "exit"
    /\ fpc' = "done"
    /\ fetch_result' = ReturnValue
    /\ UNCHANGED <<max_pages, initial_params, all_items, cursor, page,
                   requests, responses, failed>>

-----------------------------------------------------------------------------
(* categorize_email_provider                                               *)

UpperLetters == <<"A", "B", "C", "D", "E", "F", "G", "H", "I", "J", "K", "L", "M">>
                \o <<"N", "O", "P", "Q", "R", "S", "T", "U", "V", "W", "X", "Y", "Z">>
LowerLetters == <<"a", "b", "c", "d", "e", "f", "g", "h", "i", "j", "k", "l", "m">>
                \o <<"n", "o", "p", "q", "r", "s", "t", "u", "v", "w", "x", "y", "z">>

\* str.lower() of one character
LowerChar(c) ==
    IF \E i \in 1..Len(UpperLetters) : UpperLetters[i] = c
       THEN LowerLetters[CHOOSE i \in 1..Len(UpperLetters) : UpperLetters[i] = c]
       ELSE c

\* s.lower()
Lower(s) == [i \in 1..Len(s) |-> LowerChar(s[i])]

\* s.split(sep) for a one-character sep: the list of the parts between the
\* occurrences of sep (one part when sep does not occur).
RECURSIVE SplitFrom(_, _, _, _)
SplitFrom(s, sep, i, current) ==
    IF i > Len(s) THEN <<current>>
    ELSE IF s[i] = sep THEN <<current>> \o SplitFrom(s, sep, i + 1, <<>>)
    ELSE SplitFrom(s, sep, i + 1, Append(current, s[i]))

Split(s, sep) == SplitFrom(s, sep, 1, <<>>)

\* parts[-1]
LastOf(parts) == parts[Len(parts)]

\* sub in s
In(sub, s) ==
    \E i \in 1..(Len(s) - Len(sub) + 1) : SubSeq(s, i, i + Len(sub) - 1) = sub

StrGmailCom == <<"g", "m", "a", "i", "l", ".", "c", "o", "m">>
StrHotmail  == <<"h", "o", "t", "m", "a", "i", "l", ".">>
StrYahoo    == <<"y", "a", "h", "o", "o", ".">>

\* 'gmail.com', 'googlemail.com'
GoogleDomains ==
    { StrGmailCom, <<"g", "o", "o", "g", "l", "e", "m", "a", "i", "l", ".", "c", "o", "m">> }

\* 'outlook.', 'hotmail.', 'live.', 'msn.', 'office365.'
MicrosoftDomains ==
    { <<"o", "u", "t", "l", "o", "o", "k", ".">>, StrHotmail, <<"l", "i", "v", "e", ".">>, <<"m", "s", "n", ".">>,
      <<"o", "f", "f", "i", "c", "e", "3", "6", "5", ".">> }

\* 'yahoo.', 'ymail.'
YahooDomains ==
    { StrYahoo, <<"y", "m", "a", "i", "l", ".">> }

Providers == {"Google", "Microsoft", "Yahoo", "Others"}

\* The rules applied to a domain, in the order of the if statements.
ClassifyDomainMicrosoftFirst(domain) ==
    IF \E x \in MicrosoftDomains : In(x, domain) THEN "Microsoft"
    ELSE IF \E x \in GoogleDomains : In(x, domain) THEN "Google"
    ELSE IF \E x \in YahooDomains : In(x, domain) THEN "Yahoo"
    ELSE "Others"
ClassifyDomain(domain) ==
    IF \E x \in GoogleDomains : In(x, domain) THEN "Google"
    ELSE IF \E x \in MicrosoftDomains : In(x, domain) THEN "Microsoft"
    ELSE IF \E x \in YahooDomains : In(x, domain) THEN "Yahoo"
    ELSE "Others"

\* domain = email.split('@')[-1].lower()
DomainOfNoLower(e) == LastOf(Split(e, "@"))
DomainOf(e) == Lower(LastOf(Split(e, "@")))

categorize_email_provider(e) == ClassifyDomain(DomainOf(e))

MaxChunks == 3

\* The pieces the email arguments are assembled from.
EmailChunks ==
    { <<"@">>, <<"x">>, <<"g", "m", "a", "i", "l">>, <<".", "c", "o", "m">>,
      StrGmailCom, <<"G", "M", "A", "I", "L", ".", "C", "O", "M">>, <<"G", "o", "o", "g", "l", "e", "M", "a", "i", "l", ".", "c", "o", "m">>,
      <<"o", "u", "t", "l", "o", "o", "k", ".">>, <<"H", "o", "t", "m", "a", "i", "l", ".">>, <<"l", "i", "v", "e", ".">>, <<"m", "s", "n", ".">>,
      <<"o", "f", "f", "i", "c", "e", "3", "6", "5", ".">>,
      StrYahoo, <<"Y", "M", "A", "I", "L", ".">> }

RECURSIVE Flatten(_)
Flatten(chunks) ==
    IF chunks = <<>> THEN <<>> ELSE Head(chunks) \o Flatten(Tail(chunks))

\* The email arguments: every concatenation of at most MaxChunks pieces.
EmailInputs ==
    UNION { { Flatten(c) : c \in [1..n -> EmailChunks] } : n \in 0..MaxChunks }

\* The call categorize_email_provider(email).
Categorize ==
    /\ provider = "pending"
    /\ provider' = categorize_email_provider(email)
    /\ UNCHANGED email

-----------------------------------------------------------------------------
(* analyze_provider_breakdown                                              *)

MaxRecipients == 3

EmGoogle    == <<"a", "@", "g", "m", "a", "i", "l", ".", "c", "o", "m">>
EmMicrosoft == <<"b", "@", "O", "u", "t", "l", "o", "o", "k", ".", "c", "o", "m">>
EmYahoo     == <<"c", "@", "y", "a", "h", "o", "o", ".", "c", "o", "m">>
EmOthers    == <<"d", "@", "x", ".", "i", "o">>

StrInbox == <<"i", "n", "b", "o", "x">>
StrSpam  == <<"s", "p", "a", "m">>
StrOther == <<"o", "t", "h", "e", "r">>

\* A record-shaped recipient: each of 'email' and 'placement' is present or
\* absent.
RecipientDict(hasEmail, em, hasPlacement, pl) ==
    PyDict([k \in (IF hasEmail THEN {"email"} ELSE {})
                  \cup (IF hasPlacement THEN {"placement"} ELSE {}) |->
               IF k = "email" THEN em ELSE pl])

\* The recipients a test result can list: bare addresses, records, and a
\* value that is neither.
RecipientValues ==
    { PyStr(EmGoogle), PyStr(EmMicrosoft), PyStr(EmOthers),
      RecipientDict(TRUE, PyStr(EmGoogle), TRUE, PyStr(<<"I", "n", "b", "o", "x">>)),
      RecipientDict(TRUE, PyStr(EmMicrosoft), TRUE, PyStr(StrSpam)),
      RecipientDict(TRUE, PyStr(EmYahoo), TRUE, PyStr(<<"S", "p", "a", "m", "/", "I", "N", "B", "O", "X">>)),
      RecipientDict(TRUE, PyStr(EmOthers), TRUE, PyStr(<<"m", "i", "s", "s", "i", "n", "g">>)),
      RecipientDict(TRUE, PyStr(EmGoogle), FALSE, PyNone),
      RecipientDict(FALSE, PyNone, TRUE, PyStr(StrInbox)),
      RecipientDict(TRUE, PyStr(EmGoogle), TRUE, PyNone),
      PyInt(7) }

\* The test_results arguments: with or without a 'recipients' key, whose
\* value is a list or null.
TestResultsValues ==
    { [k \in {"id"} |-> PyStr("t1")] }
    \cup { [k \in {"id", "recipients"} |-> IF k = "id" THEN PyStr("t1") ELSE PyNone] }
    \cup UNION { { [k \in {"recipients"} |-> PyList(l)] :
                       l \in [1..n -> RecipientValues] } : n \in 0..MaxRecipients }

ZeroStats == [total |-> 0, inbox |-> 0, spam |-> 0, other |-> 0]

\* if 'recipients' not in test_results
HasRecipientsTruthy(tr) ==
    /\ "recipients" \in DOMAIN tr
    /\ tr["recipients"].type = "list"
    /\ tr["recipients"].value # <<>>
HasRecipients(tr) == "recipients" \in DOMAIN tr

\* provider_stats[provider][field] += 1
Bump(stats, prov, field) ==
    [stats EXCEPT ![prov] = [@ EXCEPT ![field] = @ + 1]]

CountStringAsOther(stats, r) ==
    Bump(Bump(stats, categorize_email_provider(r.value), "total"),
         categorize_email_provider(r.value), "other")

\* The body of the for loop for a bare-string recipient.
CountString(stats, r) ==
    Bump(stats, categorize_email_provider(r.value), "total")

CountRecordSpamFirst(stats, r) ==
    LET em        == Get(r.value, "email", PyStr(<<>>)).value
        placement == Lower(Get(r.value, "placement", PyStr(StrOther)).value)
        prov      == categorize_email_provider(em)
        counted   == Bump(stats, prov, "total")
    IN  IF In(StrSpam, placement) THEN Bump(counted, prov, "spam")
        ELSE IF In(StrInbox, placement) THEN Bump(counted, prov, "inbox")
        ELSE Bump(counted, prov, "other")

\* The body of the for loop for a record-shaped recipient whose email and
\* placement are strings.
CountRecord(stats, r) ==
    LET em        == Get(r.value, "email", PyStr(<<>>)).value
        placement == Lower(Get(r.value, "placement", PyStr(StrOther)).value)
        prov      == categorize_email_provider(em)
        counted   == Bump(stats, prov, "total")
    IN  IF In(StrInbox, placement) THEN Bump(counted, prov, "inbox")
        ELSE IF In(StrSpam, placement) THEN Bump(counted, prov, "spam")
        ELSE Bump(counted, prov, "other")

\* recipient.get('placement', 'other').lower() and
\* categorize_email_provider(email) need strings: a null email or placement
\* raises AttributeError.
RecordRaises(r) ==
    \/ Get(r.value, "email", PyStr(<<>>)).type # "str"
    \/ Get(r.value, "placement", PyStr(StrOther)).type # "str"

\* round(n / total * 100, 1), in tenths of a percent. No total below 16 has
\* a rate half way between two tenths.
RoundRate(n, total) == (2000 * n + total) \div (2 * total)

\* if stats['total'] > 0
KeepBucketScored(stats) == stats.inbox + stats.spam + stats.other > 0
KeepBucket(stats) == stats.total > 0

\* The entry of one provider in breakdown.
BucketEntry(stats) ==
    [ total       |-> stats.total,
      inbox_rate  |-> RoundRate(stats.inbox, stats.total),
      spam_rate   |-> RoundRate(stats.spam, stats.total),
      other_rate  |-> RoundRate(stats.other, stats.total),
      inbox_count |-> stats.inbox,
      spam_count  |-> stats.spam,
      other_count |-> stats.other ]

\* breakdown, built from provider_stats.
Breakdown(stats) ==
    [p \in {q \in Providers : KeepBucket(stats[q])} |-> BucketEntry(stats[p])]

InitAnalyzeLocals ==
    /\ recipients = PyNone
    /\ provider_stats = [p \in Providers |-> ZeroStats]
    /\ idx = 1
    /\ apc = "start"
    /\ analyze_result = [kind |-> "none"]

\* 'recipients' is not a key: return None.
ReturnNone ==
    /\ apc = "start"
    /\ ~HasRecipients(test_results)
    /\ apc' = "done"
    /\ analyze_result' = [kind |-> "value", value |-> PyNone]
    /\ UNCHANGED <<test_results, recipients, provider_stats, idx>>

\* 'recipients' is a key: read it and zero the counters.
ReadRecipients ==
    /\ apc = "start"
    /\ HasRecipients(test_results)
    /\ recipients' = test_results["recipients"]
    /\ provider_stats' = [p \in Providers |-> ZeroStats]
    /\ idx' = 1
    /\ apc' = "loop"
    /\ UNCHANGED <<test_results, analyze_result>>

\* for recipient in recipients, with recipients null: TypeError.
IterateNone ==
    /\ apc = "loop"
    /\ recipients.type # "list"
    /\ apc' = "raised"
    /\ analyze_result' = [kind |-> "error", error |-> "TypeError"]
    /\ UNCHANGED <<test_results, recipients, provider_stats, idx>>

\* One pass of the for loop over a recipient the body handles.
ProcessRecipient ==
    /\ apc = "loop"
    /\ recipients.type = "list"
    /\ idx <= Len(recipients.value)
    /\ LET r == recipients.value[idx]
       IN  /\ ~(r.type = "dict" /\ RecordRaises(r))
           /\ provider_stats' =
                 CASE r.type = "str"  -> CountString(provider_stats, r)
                   [] r.type = "dict" -> CountRecord(provider_stats, r)
                   [] OTHER           -> provider_stats
    /\ idx' = idx + 1
    /\ UNCHANGED <<test_results, recipients, apc, analyze_result>>

\* One pass of the for loop over a record with a null email or placement.
ProcessRecipientRaises ==
    /\ apc = "loop"
    /\ recipients.type = "list"
    /\ idx <= Len(recipients.value)
    /\ recipients.value[idx].type = "dict"
    /\ RecordRaises(recipients.value[idx])
    /\ apc' = "raised"
    /\ analyze_result' = [kind |-> "error", error |-> "AttributeError"]
    /\ UNCHANGED <<test_results, recipients, provider_stats, idx>>

\* The for loop is over: build breakdown and return it.
ReturnBreakdown ==
    /\ apc = "loop"
    /\ recipients.type = "list"
    /\ idx > Len(recipients.value)
    /\ apc' = "done"
    /\ analyze_result' = [kind |-> "value", value |-> PyDict(Breakdown(provider_stats))]
    /\ UNCHANGED <<test_results, recipients, provider_stats, idx>>

-----------------------------------------------------------------------------
(* Text order and calendar dates of connect_resources_report.py            *)

\* The characters of campaign names and month keys, in code point order:
\* sorted() compares strings character by character by code point.
CodePoints ==
    <<" ", "-", "0", "1", "2", "3", "4", "5", "6", "7", "8", "9">>
    \o UpperLetters \o LowerLetters

Ord(c) == CHOOSE i \in 1..Len(CodePoints) : CodePoints[i] = c

\* a < b for two strings.
StrLess(a, b) ==
    \E k \in 1..(Len(b)) :
        /\ \A j \in 1..(k - 1) : j <= Len(a) /\ a[j] = b[j]
        /\ \/ Len(a) = k - 1
           \/ (k <= Len(a) /\ Ord(a[k]) < Ord(b[k]))

RECURSIVE SortedStringsDescending(_)
SortedStringsDescending(S) ==
    IF S = {} THEN <<>>
    ELSE LET greatest == CHOOSE a \in S : \A b \in S \ {a} : StrLess(b, a)
         IN  <<greatest>> \o SortedStringsDescending(S \ {greatest})

\* sorted(keys) for a set of strings.
RECURSIVE SortedStrings(_)
SortedStrings(S) ==
    IF S = {} THEN <<>>
    ELSE LET least == CHOOSE a \in S : \A b \in S \ {a} : StrLess(a, b)
         IN  <<least>> \o SortedStrings(S \ {least})

\* sorted(keys) for a set of integers.
RECURSIVE SortedInts(_)
SortedInts(S) ==
    IF S = {} THEN <<>>
    ELSE LET least == CHOOSE a \in S : \A b \in S : a <= b
         IN  <<least>> \o SortedInts(S \ {least})

\* datetime.date(year, month, day)
Date(y, m, d) == [year |-> y, month |-> m, day |-> d]

IsLeap(y) == y % 4 = 0 /\ (y % 100 # 0 \/ y % 400 = 0)

DaysInMonth(y, m) ==
    IF m = 2 THEN (IF IsLeap(y) THEN 29 ELSE 28)
    ELSE IF m \in {4, 6, 9, 11} THEN 30 ELSE 31

\* The number of days before January 1st of year y.
DaysBeforeYear(y) ==
    (y - 1) * 365 + (y - 1) \div 4 - (y - 1) \div 100 + (y - 1) \div 400

RECURSIVE DaysBeforeMonth(_, _)
DaysBeforeMonth(y, m) ==
    IF m = 1 THEN 0 ELSE DaysBeforeMonth(y, m - 1) + DaysInMonth(y, m - 1)

\* date.toordinal(): January 1st of year 1 is day 1.
ToOrdinal(dt) ==
    DaysBeforeYear(dt.year) + DaysBeforeMonth(dt.year, dt.month) + dt.day

\* date.fromordinal(n)
FromOrdinal(n) ==
    LET y == CHOOSE yy \in (n \div 366)..(n \div 365 + 1) :
                 DaysBeforeYear(yy) < n /\ n <= DaysBeforeYear(yy + 1)
        m == CHOOSE mm \in 1..12 :
                 /\ DaysBeforeYear(y) + DaysBeforeMonth(y, mm) < n
                 /\ n <= DaysBeforeYear(y) + DaysBeforeMonth(y, mm)
                         + DaysInMonth(y, mm)
    IN  Date(y, m, n - DaysBeforeYear(y) - DaysBeforeMonth(y, m))

\* date.weekday(): Monday is 0.
Weekday(dt) == (ToOrdinal(dt) + 6) % 7

\* The ordinal of the Monday of ISO week 1 of year y: the week that holds
\* the year's first Thursday.
IsoWeek1Monday(y) ==
    LET firstday     == DaysBeforeYear(y) + 1
        firstweekday == (firstday + 6) % 7
        week1monday  == firstday - firstweekday
    IN  IF firstweekday > 3 THEN week1monday + 7 ELSE week1monday

\* date.isocalendar(): the ISO year and the ISO week number.
IsoCalendar(dt) ==
    LET ord_ == ToOrdinal(dt)
        y     == dt.year
        week  == IF ord_ >= IsoWeek1Monday(y)
                    THEN (ord_ - IsoWeek1Monday(y)) \div 7
                    ELSE -1
    IN  IF week < 0
           THEN [year |-> y - 1,
                 week |-> (ord_ - IsoWeek1Monday(y - 1)) \div 7 + 1]
        ELSE IF week >= 52 /\ ord_ >= IsoWeek1Monday(y + 1)
           THEN [year |-> y + 1, week |-> 1]
        ELSE [year |-> y, week |-> week + 1]

\* get_week_info(date_obj): the label is the text built from the ISO week
\* number, the month and day of the week's Monday, and the date of its
\* Sunday.
get_week_info(dt) ==
    LET iso    == IsoCalendar(dt)
        monday == FromOrdinal(ToOrdinal(dt) - Weekday(dt))
        sunday == FromOrdinal(ToOrdinal(dt) - Weekday(dt) + 6)
    IN  [ year     |-> iso.year,
          week_num |-> iso.week,
          start    |-> monday,
          end      |-> sunday,
          label    |-> [ week   |-> iso.week,
                         monday |-> <<monday.month, monday.day>>,
                         sunday |-> <<sunday.month, sunday.day, sunday.year>> ] ]

Digits == <<"0", "1", "2", "3", "4", "5", "6", "7", "8", "9">>

\* date.strftime('%Y-%m'): four digits of the year, '-', two of the month.
MonthKey(dt) ==
    << Digits[((dt.year \div 1000) % 10) + 1], Digits[((dt.year \div 100) % 10) + 1],
       Digits[((dt.year \div 10) % 10) + 1], Digits[(dt.year % 10) + 1], "-",
       Digits[(dt.month \div 10) + 1], Digits[(dt.month % 10) + 1] >>

DigitValue(c) == (CHOOSE i \in 1..10 : Digits[i] = c) - 1

MonthNames ==
    << "January", "February", "March", "April", "May", "June", "July",
       "August", "September", "October", "November", "December" >>

\* datetime.strptime(m, '%Y-%m').strftime('%B')
MonthName(m) == MonthNames[10 * DigitValue(m[6]) + DigitValue(m[7])]
-----------------------------------------------------------------------------
(* create_master_dashboard                                                 *)

MaxDailyRecords == 3

Acme == <<"A", "c", "m", "e">>
Beta == <<"B", "e", "t", "a">>
Unnamed == <<"U", "n", "n", "a", "m", "e", "d">>

\* A campaign of data['campaigns'], with or without a name.
Campaign(id, hasName, name) ==
    [k \in {"id"} \cup (IF hasName THEN {"name"} ELSE {}) |->
        IF k = "id" THEN id ELSE name]

\* data['campaigns']: two campaigns, the first one listed a second time, a
\* campaign with no name.
CampaignLists ==
    { << Campaign("c1", TRUE, Beta), Campaign("c2", TRUE, Acme) >>,
      << Campaign("c1", TRUE, Beta), Campaign("c2", TRUE, Acme),
         Campaign("c1", TRUE, Beta) >>,
      << Campaign("c2", TRUE, Acme), Campaign("c1", FALSE, <<>>) >> }

\* One daily record of the analytics API. A field the record lacks is not a
\* key; the date is the calendar date its YYYY-MM-DD text denotes.
DayRecord(keys, dt, sent, leads, replies, opps) ==
    [k \in keys |->
        CASE k = "date"                -> dt
          [] k = "sent"                -> sent
          [] k = "new_leads_contacted" -> leads
          [] k = "unique_replies"      -> replies
          [] k = "opportunities"       -> opps]

AllFields ==
    {"date", "sent", "new_leads_contacted", "unique_replies", "opportunities"}

\* The daily records the API returns, each with the id of its campaign.
DailyRecordValues ==
    { [id |-> "c2", day |-> DayRecord(AllFields \ {"new_leads_contacted"},
                                      Date(2026, 1, 5), 100, 0, 5, 1)],
      [id |-> "c2", day |-> DayRecord(AllFields \ {"new_leads_contacted"},
                                      Date(2026, 1, 12), 50, 0, 0, 0)],
      [id |-> "c1", day |-> DayRecord(AllFields, Date(2026, 1, 5), 0, 3, 0, 0)],
      [id |-> "c1", day |-> DayRecord(AllFields, Date(2026, 2, 2), 0, 0, 1, 0)],
      [id |-> "c1", day |-> DayRecord(AllFields, Date(2025, 12, 29), 7, 7, 2, 1)],
      [id |-> "c2", day |-> DayRecord(AllFields, Date(2024, 6, 10), 4, 4, 0, 0)],
      [id |-> "c1", day |-> DayRecord(AllFields \ {"date"}, Date(1, 1, 1), 9, 9, 9, 9)],
      [id |-> "c1", day |-> DayRecord(AllFields, Date(2026, 1, 12), 20, 20, 2, 0)],
      [id |-> "c2", day |-> DayRecord(AllFields, Date(2026, 2, 1), 6, 6, 1, 0)],
      [id |-> "c2", day |-> DayRecord(AllFields, Date(2026, 2, 3), 10, 8, 1, 1)] }

\* The daily records of campaign id among the fetched ones, in order.
RECURSIVE DailyStatsOf(_, _)
DailyStatsOf(fetched, id) ==
    IF fetched = <<>> THEN <<>>
    ELSE (IF Head(fetched).id = id THEN <<Head(fetched).day>> ELSE <<>>)
         \o DailyStatsOf(Tail(fetched), id)

\* fetch_all_data: campaign_analytics[c_id] = daily_stats, only for a
\* campaign with a non-empty list of daily records.
CampaignAnalytics(fetched) ==
    [id \in {fetched[i].id : i \in 1..Len(fetched)} |-> DailyStatsOf(fetched, id)]

CampaignAnalyticsValues ==
    UNION { { CampaignAnalytics(f) : f \in [1..n -> DailyRecordValues] } :
              n \in 0..MaxDailyRecords }

ZeroCounters == [sent |-> 0, new_leads |-> 0, replies |-> 0, opportunities |-> 0]

\* The four += of one daily record into one aggregate.
AddDayNoNewLeads(agg, day) ==
    [ sent          |-> agg.sent + Get(day, "sent", 0),
      new_leads     |-> agg.new_leads,
      replies       |-> agg.replies + Get(day, "unique_replies", 0),
      opportunities |-> agg.opportunities + Get(day, "opportunities", 0) ]
AddDay(agg, day) ==
    [ sent          |-> agg.sent + Get(day, "sent", 0),
      new_leads     |-> agg.new_leads + Get(day, "new_leads_contacted", 0),
      replies       |-> agg.replies + Get(day, "unique_replies", 0),
      opportunities |-> agg.opportunities + Get(day, "opportunities", 0) ]

\* The passes of "for camp in data['campaigns']: for day in daily_stats",
\* in order: the campaign and the daily record of each.
RECURSIVE LoopPasses(_, _)
LoopPasses(camps, analytics) ==
    IF camps = <<>> THEN <<>>
    ELSE LET daily_stats == Get(analytics, Head(camps)["id"], <<>>)
         IN  [j \in 1..Len(daily_stats) |->
                 [camp |-> Head(camps), day |-> daily_stats[j]]]
             \o LoopPasses(Tail(camps), analytics)

\* if not date_str: continue
HasDate(day) == "date" \in DOMAIN day

\* year_data[year][month_key][...] += ..., creating the year and the month
\* on first use.
AddMonthly(yd, day) ==
    LET year      == day["date"].year
        month_key == MonthKey(day["date"])
        months    == Get(yd, year, [k \in {} |-> ZeroCounters])
        stats     == Get(months, month_key, ZeroCounters)
    IN  [y \in DOMAIN yd \cup {year} |->
            IF y = year
               THEN [k \in DOMAIN months \cup {month_key} |->
                        IF k = month_key THEN AddDay(stats, day) ELSE months[k]]
               ELSE yd[y]]

\* year_data after the first n passes of the loop.
RECURSIVE YearData(_, _)
YearData(passes, n) ==
    IF n = 0 THEN [y \in {} |-> [k \in {} |-> ZeroCounters]]
    ELSE IF HasDate(passes[n].day)
            THEN AddMonthly(YearData(passes, n - 1), passes[n].day)
            ELSE YearData(passes, n - 1)

\* all_time_totals after the first n passes of the loop.
RECURSIVE AllTimeTotals(_, _)
AllTimeTotals(passes, n) ==
    IF n = 0 THEN ZeroCounters
    ELSE IF HasDate(passes[n].day)
            THEN AddDay(AllTimeTotals(passes, n - 1), passes[n].day)
            ELSE AllTimeTotals(passes, n - 1)

\* The marker of a ratio whose computation raises ZeroDivisionError.
ZeroDivisionError == -1

\* Rounding of n / d to the nearest integer, a tie going to the even one
\* (the rounding of the format specs .1f and .0f on the exact quotient).
RoundDiv(n, d) ==
    LET q == n \div d
        r == n % d
    IN  IF 2 * r > d \/ (2 * r = d /\ q % 2 = 1) THEN q + 1 ELSE q

\* a / b times scale, rounded; raises when b is 0.
Quotient(a, b, scale) ==
    IF b = 0 THEN ZeroDivisionError ELSE RoundDiv(scale * a, b)

\* The test "if <denominator> > 0" that guards every ratio.
PositiveNoTest(den) == TRUE
Positive(den) == den > 0

\* emails_per_opp as written to the sheet, in tenths.
EmailsPerOpp(stats) ==
    IF Positive(stats.opportunities)
       THEN Quotient(stats.sent, stats.opportunities, 10)
       ELSE 0

SpacerRow == [kind |-> "spacer"]

\* One row of a month section.
MonthRow(m, stats) ==
    [ kind |-> "month", month |-> MonthName(m),
      sent |-> stats.sent, new_leads |-> stats.new_leads,
      replies |-> stats.replies, opportunities |-> stats.opportunities,
      emails_per_opp |-> EmailsPerOpp(stats) ]

\* The rows of the section PERFORMANCE BY MONTH <year>, without its spacer:
\* none when the year has no month.
MonthSection(yd, year) ==
    LET stats_year    == Get(yd, year, [k \in {} |-> ZeroCounters])
        sorted_months == SortedStrings(DOMAIN stats_year)
    IN  IF DOMAIN stats_year = {} THEN <<>>
        ELSE << [kind |-> "section", text |-> "PERFORMANCE BY MONTH", year |-> year],
                [kind |-> "columns"] >>
             \o [i \in 1..Len(sorted_months) |->
                    MonthRow(sorted_months[i], stats_year[sorted_months[i]])]

MasterRowsOldestFirst(yd, totals) ==
    << [kind |-> "title", text |-> "MASTER DASHBOARD"],
       [kind |-> "section", text |-> "ALL TIME PERFORMANCE", year |-> 0],
       [kind |-> "columns"],
       [kind |-> "all_time", sent |-> totals.sent, new_leads |-> totals.new_leads,
        replies |-> totals.replies, opportunities |-> totals.opportunities],
       SpacerRow >>
    \o MonthSection(yd, 2025)
    \o (IF MonthSection(yd, 2025) # <<>> THEN <<SpacerRow>> ELSE <<>>)
    \o MonthSection(yd, 2026)

\* rows of the Master Dashboard.
MasterRows(yd, totals) ==
    << [kind |-> "title", text |-> "MASTER DASHBOARD"],
       [kind |-> "section", text |-> "ALL TIME PERFORMANCE", year |-> 0],
       [kind |-> "columns"],
       [kind |-> "all_time", sent |-> totals.sent, new_leads |-> totals.new_leads,
        replies |-> totals.replies, opportunities |-> totals.opportunities],
       SpacerRow >>
    \o MonthSection(yd, 2026)
    \o (IF MonthSection(yd, 2026) # <<>> THEN <<SpacerRow>> ELSE <<>>)
    \o MonthSection(yd, 2025)
-----------------------------------------------------------------------------
(* create_campaigns_tab                                                    *)

target_year == 2026

\* week_camp_data[key][...] += ... for one daily record of the campaign
\* camp. The mapping keeps its keys in the order of their first use: it is
\* the sequence of its items.
AddWeekly(wcd, camp, day) ==
    LET week_info == get_week_info(day["date"])
        c_name    == Get(camp, "name", Unnamed)
        key       == <<week_info.week_num, week_info.label, c_name>>
    IN  IF \E i \in 1..Len(wcd) : wcd[i].key = key
           THEN [i \in 1..Len(wcd) |->
                    IF wcd[i].key = key
                       THEN [key |-> key, stats |-> AddDay(wcd[i].stats, day)]
                       ELSE wcd[i]]
           ELSE Append(wcd, [key |-> key, stats |-> AddDay(ZeroCounters, day)])

InTargetYearAnyYear(day) == HasDate(day)

\* The record is counted: it has a date, of the target year.
InTargetYear(day) == HasDate(day) /\ day["date"].year = target_year

\* week_camp_data after the first n passes of the loop.
RECURSIVE WeekCampData(_, _)
WeekCampData(passes, n) ==
    IF n = 0 THEN <<>>
    ELSE IF InTargetYear(passes[n].day)
            THEN AddWeekly(WeekCampData(passes, n - 1), passes[n].camp, passes[n].day)
            ELSE WeekCampData(passes, n - 1)

\* weeks, after the first n items of week_camp_data were grouped.
RECURSIVE Weeks(_, _)
Weeks(wcd, n) ==
    IF n = 0 THEN [w \in {} |-> [label |-> <<>>, campaigns |-> <<>>]]
    ELSE LET weeks    == Weeks(wcd, n - 1)
             week_num == wcd[n].key[1]
             week     == Get(weeks, week_num,
                             [label     |-> wcd[n].key[2],
                              campaigns |-> [c \in {} |-> ZeroCounters]])
         IN  SetItem(weeks, week_num,
                     [label     |-> week.label,
                      campaigns |-> SetItem(week.campaigns, wcd[n].key[3],
                                            wcd[n].stats)])

SuppressedIgnoringSent(stats) ==
    stats.replies = 0 /\ stats.opportunities = 0

\* if stats['sent'] == 0 and stats['replies'] == 0 and
\* stats['opportunities'] == 0: continue
Suppressed(stats) ==
    stats.sent = 0 /\ stats.replies = 0 /\ stats.opportunities = 0

\* reply_pct and opp_pct as written to the sheet, in tenths of a percent.
ReplyPct(stats) ==
    IF Positive(stats.sent) THEN Quotient(stats.replies, stats.sent, 1000) ELSE 0
OppPct(stats) ==
    IF Positive(stats.sent) THEN Quotient(stats.opportunities, stats.sent, 1000) ELSE 0

AddCounters(a, b) ==
    [ sent          |-> a.sent + b.sent,
      new_leads     |-> a.new_leads + b.new_leads,
      replies       |-> a.replies + b.replies,
      opportunities |-> a.opportunities + b.opportunities ]

\* A campaign row, a WEEKLY TOTAL row or the GRAND TOTAL (YTD) row.
CountersRow(kind, c_name, stats) ==
    [ kind |-> kind, name |-> c_name,
      sent |-> stats.sent, new_leads |-> stats.new_leads,
      replies |-> stats.replies, opportunities |-> stats.opportunities,
      reply_pct |-> ReplyPct(stats), opp_pct |-> OppPct(stats) ]

\* The campaign names of a week whose pass of the loop reaches the row and
\* the week_totals += lines, in sorted order.
ShownNames(week) ==
    LET Shown(c_name) == ~Suppressed(week.campaigns[c_name])
    IN  SelectSeq(SortedStrings(DOMAIN week.campaigns), Shown)

\* week_totals after the loop over the campaigns of a week.
RECURSIVE WeekTotals(_, _)
WeekTotals(week, names) ==
    IF names = <<>> THEN ZeroCounters
    ELSE AddCounters(WeekTotals(week, SubSeq(names, 1, Len(names) - 1)),
                     week.campaigns[names[Len(names)]])

\* The rows of one week: label, campaigns, WEEKLY TOTAL, spacer.
WeekBlock(week) ==
    LET names == ShownNames(week)
    IN  << [kind |-> "week", label |-> week.label] >>
        \o [i \in 1..Len(names) |->
               CountersRow("campaign", names[i], week.campaigns[names[i]])]
        \o << CountersRow("weekly_total", <<>>, WeekTotals(week, names)),
              SpacerRow >>

\* The rows of the weeks week_nums, in that order.
RECURSIVE WeekBlocks(_, _)
WeekBlocks(weeks, week_nums) ==
    IF week_nums = <<>> THEN <<>>
    ELSE WeekBlock(weeks[Head(week_nums)]) \o WeekBlocks(weeks, Tail(week_nums))

\* grand_totals after the weeks week_nums.
RECURSIVE GrandTotals(_, _)
GrandTotals(weeks, week_nums) ==
    IF week_nums = <<>> THEN ZeroCounters
    ELSE AddCounters(GrandTotals(weeks, SubSeq(week_nums, 1, Len(week_nums) - 1)),
                     WeekTotals(weeks[week_nums[Len(week_nums)]],
                                ShownNames(weeks[week_nums[Len(week_nums)]])))

\* rows of the Campaigns tab.
CampaignRows(wcd) ==
    LET weeks        == Weeks(wcd, Len(wcd))
        sorted_weeks == SortedInts(DOMAIN weeks)
    IN  << [kind |-> "columns"] >>
        \o WeekBlocks(weeks, sorted_weeks)
        \o << CountersRow("grand_total", <<>>, GrandTotals(weeks, sorted_weeks)) >>
-----------------------------------------------------------------------------
(* create_agents_tab                                                       *)

MaxAccountRecords == 3

\* One daily record of the accounts analytics API.
AccountDay(keys, em, sent) ==
    [k \in keys |-> IF k = "email_account" THEN em ELSE sent]

AccountDayValues ==
    { AccountDay({"email_account", "sent"}, "a@x.io", 5),
      AccountDay({"email_account", "sent"}, "a@x.io", 0),
      AccountDay({"email_account", "sent"}, "b@x.io", 5),
      AccountDay({"email_account", "sent"}, "b@x.io", 2),
      AccountDay({"email_account"}, "c@x.io", 0),
      AccountDay({"sent"}, "", 4) }

\* data['account_analytics']: a list of daily records, or the mapping an
\* error response is.
AccountAnalyticsValues ==
    { PyDict([k \in {"error"} |-> "Unauthorized"]) }
    \cup UNION { { PyList(l) : l \in [1..n -> AccountDayValues] } :
                   n \in 0..MaxAccountRecords }

\* One account of data['accounts'], with or without an email.
Account(hasEmail, em) ==
    [k \in {"status"} \cup (IF hasEmail THEN {"email"} ELSE {}) |->
        IF k = "email" THEN em ELSE 1]

\* data['accounts']: the roster.
AccountLists ==
    { <<>>,
      << Account(TRUE, "a@x.io") >>,
      << Account(TRUE, "d@x.io"), Account(TRUE, "c@x.io"), Account(TRUE, "a@x.io") >>,
      << Account(TRUE, "c@x.io"), Account(FALSE, ""), Account(TRUE, "d@x.io") >> }

\* The position of email among the items of agent_data, 0 when it is not a
\* key. The mapping keeps its keys in the order of their first use: it is
\* the sequence of its items.
AgentIndex(agents, em) ==
    IF \E i \in 1..Len(agents) : agents[i].email = em
       THEN CHOOSE i \in 1..Len(agents) : agents[i].email = em
       ELSE 0

\* The body of the loop over account_analytics for one daily record.
AddAccountDayCountAll(agents, day_stat) ==
    LET em      == Get(day_stat, "email_account", "")
        sent    == Get(day_stat, "sent", 0)
        present == IF AgentIndex(agents, em) = 0
                      THEN Append(agents, [email |-> em, total_sent |-> 0,
                                           active_days |-> 0])
                      ELSE agents
        i       == AgentIndex(present, em)
    IN  IF em = "" THEN agents
        ELSE [present EXCEPT ![i] =
                 [email       |-> em,
                  total_sent  |-> @.total_sent + sent,
                  active_days |-> @.active_days + 1]]
AddAccountDay(agents, day_stat) ==
    LET em      == Get(day_stat, "email_account", "")
        sent    == Get(day_stat, "sent", 0)
        present == IF AgentIndex(agents, em) = 0
                      THEN Append(agents, [email |-> em, total_sent |-> 0,
                                           active_days |-> 0])
                      ELSE agents
        i       == AgentIndex(present, em)
    IN  IF em = "" THEN agents
        ELSE [present EXCEPT ![i] =
                 [email       |-> em,
                  total_sent  |-> @.total_sent + sent,
                  active_days |-> IF sent > 0 THEN @.active_days + 1
                                  ELSE @.active_days]]

\* agent_data after the first n daily records.
RECURSIVE FromAnalytics(_, _)
FromAnalytics(days, n) ==
    IF n = 0 THEN <<>>
    ELSE AddAccountDay(FromAnalytics(days, n - 1), days[n])

\* The body of the loop over data['accounts'] for one account.
AddAccount(agents, account) ==
    LET em == Get(account, "email", "")
    IN  IF em # "" /\ AgentIndex(agents, em) = 0
           THEN Append(agents, [email |-> em, total_sent |-> 0, active_days |-> 0])
           ELSE agents

\* agent_data after the first n accounts of the roster.
RECURSIVE WithRoster(_, _, _)
WithRoster(agents, roster, n) ==
    IF n = 0 THEN agents
    ELSE AddAccount(WithRoster(agents, roster, n - 1), roster[n])

\* agent_data, built from the analytics stream and the roster.
AgentData(analytics, roster) ==
    WithRoster(IF analytics.type = "list"
                  THEN FromAnalytics(analytics.value, Len(analytics.value))
                  ELSE <<>>,
               roster, Len(roster))

\* s without its item at position i.
Without(s, i) == SubSeq(s, 1, i - 1) \o SubSeq(s, i + 1, Len(s))

RECURSIVE SortedAgentsTiesReversed(_)
SortedAgentsTiesReversed(agents) ==
    IF agents = <<>> THEN <<>>
    ELSE LET first == CHOOSE i \in 1..Len(agents) :
                         /\ \A j \in 1..Len(agents) :
                               agents[j].total_sent <= agents[i].total_sent
                         /\ \A j \in (i + 1)..Len(agents) :
                               agents[j].total_sent < agents[i].total_sent
         IN  <<agents[first]>> \o SortedAgentsTiesReversed(Without(agents, first))

\* sorted(agent_data.items(), key=total_sent, reverse=True): the sort is
\* stable, so items of equal total_sent keep their order.
RECURSIVE SortedAgents(_)
SortedAgents(agents) ==
    IF agents = <<>> THEN <<>>
    ELSE LET first == CHOOSE i \in 1..Len(agents) :
                         /\ \A j \in 1..Len(agents) :
                               agents[j].total_sent <= agents[i].total_sent
                         /\ \A j \in 1..(i - 1) :
                               agents[j].total_sent < agents[i].total_sent
         IN  <<agents[first]>> \o SortedAgents(Without(agents, first))

\* avg_per_day as written to the sheet, a whole number.
AvgPerDay(stats) ==
    IF Positive(stats.active_days)
       THEN Quotient(stats.total_sent, stats.active_days, 1)
       ELSE 0

AgentRow(stats) ==
    [ kind |-> "agent", email |-> stats.email,
      total_sent |-> stats.total_sent, active_days |-> stats.active_days,
      avg_per_day |-> AvgPerDay(stats),
      status |-> IF stats.total_sent > 0 THEN "Active" ELSE "Inactive" ]

RECURSIVE SumTotalSent(_, _)
SumTotalSent(agents, n) ==
    IF n = 0 THEN 0 ELSE SumTotalSent(agents, n - 1) + agents[n].total_sent

AgentRowsAllActive(agents) ==
    LET sorted_agents == SortedAgents(agents)
    IN  << [kind |-> "columns"] >>
        \o [i \in 1..Len(sorted_agents) |-> AgentRow(sorted_agents[i])]
        \o << [ kind |-> "total", agents |-> Len(agents),
                total_sent |-> SumTotalSent(sorted_agents, Len(sorted_agents)),
                active_count |-> Cardinality({ i \in 1..Len(sorted_agents) :
                                                sorted_agents[i].active_days >= 0 }) ] >>

\* rows of the Agents tab.
AgentRows(agents) ==
    LET sorted_agents == SortedAgents(agents)
    IN  << [kind |-> "columns"] >>
        \o [i \in 1..Len(sorted_agents) |-> AgentRow(sorted_agents[i])]
        \o << [ kind |-> "total", agents |-> Len(agents),
                total_sent |-> SumTotalSent(sorted_agents, Len(sorted_agents)),
                active_count |-> Cardinality({ i \in 1..Len(sorted_agents) :
                                                sorted_agents[i].total_sent > 0 }) ] >>
-----------------------------------------------------------------------------
(* main: the three tabs, then the email digest                            *)

\* datetime.date.today() of the runs considered: end_date of the fetch, so
\* no daily record is later.
TodayValues == { Date(2026, 2, 4) }

\* The daily records of data['campaign_analytics'], over all its keys.
RECURSIVE AllDays(_, _)
AllDays(analytics, ids) ==
    IF ids = {} THEN <<>>
    ELSE LET id == CHOOSE c \in ids : TRUE
         IN  analytics[id] \o AllDays(analytics, ids \ {id})

\* day['date'] of a record with no date raises KeyError.
DigestRaises(days) == \E i \in 1..Len(days) : ~HasDate(days[i])

InWeekOfLastSevenDays(dt, d) ==
    /\ ToOrdinal(dt) - 6 <= ToOrdinal(d)
    /\ ToOrdinal(d) <= ToOrdinal(dt)

\* week_start <= d <= week_end
InWeekOf(dt, d) ==
    /\ ToOrdinal(dt) - Weekday(dt) <= ToOrdinal(d)
    /\ ToOrdinal(d) <= ToOrdinal(dt) - Weekday(dt) + 6

\* The sums of sent, unique_replies and opportunities over the first n of
\* the daily records, all of them or those of the week of dt.
RECURSIVE DigestSums(_, _, _, _)
DigestSums(days, n, weekOnly, dt) ==
    IF n = 0 THEN [sent |-> 0, replies |-> 0, opps |-> 0]
    ELSE LET before == DigestSums(days, n - 1, weekOnly, dt)
         IN  IF weekOnly /\ ~InWeekOf(dt, days[n]["date"]) THEN before
             ELSE [ sent    |-> before.sent + Get(days[n], "sent", 0),
                    replies |-> before.replies + Get(days[n], "unique_replies", 0),
                    opps    |-> before.opps + Get(days[n], "opportunities", 0) ]

\* A rate of the digest, in tenths of a percent: "0.0%" when sent is 0.
DigestRate(n, sent) ==
    IF Positive(sent) THEN Quotient(n, sent, 1000) ELSE 0

\* The metrics of the digest.
Digest(analytics, dt) ==
    LET days     == AllDays(analytics, DOMAIN analytics)
        week     == DigestSums(days, Len(days), TRUE, dt)
        all_time == DigestSums(days, Len(days), FALSE, dt)
    IN  [ kind                |-> "value",
          iso_week            |-> IsoCalendar(FromOrdinal(ToOrdinal(dt) - Weekday(dt))).week,
          week_start          |-> FromOrdinal(ToOrdinal(dt) - Weekday(dt)),
          week_end            |-> FromOrdinal(ToOrdinal(dt) - Weekday(dt) + 6),
          week_sent           |-> week.sent,
          week_replies        |-> week.replies,
          week_opps           |-> week.opps,
          all_time_sent       |-> all_time.sent,
          all_time_replies    |-> all_time.replies,
          all_time_opps       |-> all_time.opps,
          week_reply_rate     |-> DigestRate(week.replies, week.sent),
          week_opp_rate       |-> DigestRate(week.opps, week.sent),
          all_time_reply_rate |-> DigestRate(all_time.replies, all_time.sent),
          all_time_opp_rate   |-> DigestRate(all_time.opps, all_time.sent) ]

\* The ratios a row carries.
RatioCells(row) ==
    CASE row.kind = "month" -> {row.emails_per_opp}
      [] row.kind \in {"campaign", "weekly_total", "grand_total"} ->
            {row.reply_pct, row.opp_pct}
      [] row.kind = "agent" -> {row.avg_per_day}
      [] OTHER -> {}

\* Building the rows raised ZeroDivisionError.
RowsRaise(rows) == \E i \in 1..Len(rows) : ZeroDivisionError \in RatioCells(rows[i])

NoTabs == [t \in {} |-> <<>>]

TabNames == {"Master Dashboard", "Campaigns 2026", "Agents"}

\* The spreadsheet before the run: no tab yet, or the three tabs of an
\* earlier run. A worksheet is "absent", "old" (of an earlier run),
\* "deleted" (by this run), "empty" (recreated, no row written) or
\* "written" (recreated, with the rows of this run).
WorksheetsValues == { [t \in TabNames |-> "absent"], [t \in TabNames |-> "old"] }

\* How the calls that write a tab can go: all succeed, or one of
\* del_worksheet, add_worksheet, ws.update, sh.batch_update raises.
WriteOutcomes ==
    {"ok", "delete_failed", "add_failed", "update_failed", "format_failed"}

\* The state of the worksheet after the writing of its tab went as outcome.
\* A failure of the lookup or of del_worksheet is swallowed by the bare
\* except, and add_worksheet then raises on the title that still exists.
WorksheetAfter(before, outcome) ==
    CASE outcome \in {"ok", "format_failed"} -> "written"
      [] outcome = "update_failed"           -> "empty"
      [] outcome = "add_failed"              ->
            IF before = "absent" THEN "absent" ELSE "deleted"
      [] outcome = "delete_failed"           -> before

\* "Delete and recreate", ws.update and the formatting of one tab, its
\* rows being computed: main goes on to next when every call succeeds and
\* ends on the gspread error otherwise.
WriteTab(tab, rows, next) ==
    \E outcome \in WriteOutcomes :
        /\ outcome = "delete_failed" => worksheets[tab] # "absent"
        /\ worksheets' = [worksheets EXCEPT
                             ![tab] = WorksheetAfter(worksheets[tab], outcome)]
        /\ sheet' = IF outcome \in {"ok", "format_failed"}
                       THEN SetItem(sheet, tab, rows)
                       ELSE sheet
        /\ rpc' = IF outcome = "ok" THEN next ELSE "api_error"

\* The state of main before create_master_dashboard, fetch_all_data having
\* returned data.
InitReportLocals ==
    /\ rpc = "dashboard"
    /\ year_data = [y \in {} |-> [k \in {} |-> ZeroCounters]]
    /\ all_time_totals = ZeroCounters
    /\ week_camp_data = <<>>
    /\ agent_data = <<>>
    /\ sheet = NoTabs
    /\ digest = [kind |-> "none"]

create_master_dashboard ==
    /\ rpc = "dashboard"
    /\ LET passes == LoopPasses(campaigns, campaign_analytics)
           yd     == YearData(passes, Len(passes))
           totals == AllTimeTotals(passes, Len(passes))
           rows   == MasterRows(yd, totals)
       IN  /\ year_data' = yd
           /\ all_time_totals' = totals
           /\ IF RowsRaise(rows)
                 THEN rpc' = "raised" /\ UNCHANGED <<sheet, worksheets>>
                 ELSE WriteTab("Master Dashboard", rows, "campaigns")
    /\ UNCHANGED <<campaigns, campaign_analytics, accounts, account_analytics,
                   today, week_camp_data, agent_data, digest>>

create_campaigns_tab ==
    /\ rpc = "campaigns"
    /\ LET passes == LoopPasses(campaigns, campaign_analytics)
           wcd    == WeekCampData(passes, Len(passes))
           rows   == CampaignRows(wcd)
       IN  /\ week_camp_data' = wcd
           /\ IF RowsRaise(rows)
                 THEN rpc' = "raised" /\ UNCHANGED <<sheet, worksheets>>
                 ELSE WriteTab("Campaigns 2026", rows, "agents")
    /\ UNCHANGED <<campaigns, campaign_analytics, accounts, account_analytics,
                   today, year_data, all_time_totals, agent_data, digest>>

create_agents_tab ==
    /\ rpc = "agents"
    /\ LET agents == AgentData(account_analytics, accounts)
           rows   == AgentRows(agents)
       IN  /\ agent_data' = agents
           /\ IF RowsRaise(rows)
                 THEN rpc' = "raised" /\ UNCHANGED <<sheet, worksheets>>
                 ELSE WriteTab("Agents", rows, "digest")
    /\ UNCHANGED <<campaigns, campaign_analytics, accounts, account_analytics,
                   today, year_data, all_time_totals, week_camp_data, digest>>

\* The email logic of main, for a non-empty list of recipients (the
\* default): the metrics of the digest are computed.
EmailDigest ==
    /\ rpc = "digest"
    /\ LET days == AllDays(campaign_analytics, DOMAIN campaign_analytics)
       IN  IF DigestRaises(days)
              THEN /\ rpc' = "raised"
                   /\ digest' = [kind |-> "error", error |-> "KeyError"]
              ELSE LET metrics == Digest(campaign_analytics, today)
                   IN  IF ZeroDivisionError \in
                             { metrics.week_reply_rate, metrics.week_opp_rate,
                               metrics.all_time_reply_rate, metrics.all_time_opp_rate }
                          THEN /\ rpc' = "raised"
                               /\ digest' = [kind |-> "error",
                                             error |-> "ZeroDivisionError"]
                          ELSE /\ rpc' = "done"
                               /\ digest' = metrics
    /\ UNCHANGED <<campaigns, campaign_analytics, accounts, account_analytics,
                   today, year_data, all_time_totals, week_camp_data,
                   agent_data, sheet, worksheets>>
-----------------------------------------------------------------------------
(* connect_resources_report.py: fetch_all_data                             *)

\* limit of every list request.
PageLimit == 100

\* The numbers the loops keep (skip, the lengths of campaigns and accounts)
\* are followed up to MaxPagesCounted pages; a value at the cap stands for
\* "this many or more".
MaxPagesCounted == 3

Capped(n) ==
    IF n > MaxPagesCounted * PageLimit THEN MaxPagesCounted * PageLimit ELSE n

Cursors == { PyStr(<<>>), PyStr(<<"k", "1">>), PyStr(<<"k", "2">>) }

\* What client.request can return for a list endpoint: a dict whose 'items'
\* holds no item, one item or a full page (an absent 'items' reads as no
\* item) with or without 'next_starting_after', a bare list, or the text of
\* a body that is not JSON.
ListResponses ==
    [type : {"dict"}, items : {0, 1, PageLimit},
     next_starting_after : {PyNone} \cup Cursors]
    \cup [type : {"list"}, items : {0, 1, PageLimit},
          next_starting_after : {PyNone}]
    \cup [type : {"str"}, items : {0}, next_starting_after : {PyNone}]

NoResponse == [type |-> "none", items |-> 0, next_starting_after |-> PyNone]

\* len(items), items being resp.get('items', []) of a dict, resp itself
\* when it is a list, [] otherwise.
ItemsOf(r) == IF r.type \in {"dict", "list"} THEN r.items ELSE 0

InitFetchDataLocals ==
    /\ dpc = "campaigns"
    /\ skip = 0
    /\ n_campaigns = 0
    /\ starting_after = PyNone
    /\ n_accounts = 0
    /\ list_resp = NoResponse

\* client.request("GET", "/campaigns", params={"limit": 100, "skip": skip})
RequestCampaigns ==
    /\ dpc = "campaigns"
    /\ list_resp' \in ListResponses
    /\ dpc' = "campaigns_items"
    /\ UNCHANGED <<skip, n_campaigns, starting_after, n_accounts>>

\* The rest of one pass of the campaigns loop.
CampaignsPage ==
    /\ dpc = "campaigns_items"
    /\ LET items == ItemsOf(list_resp)
       IN  IF items = 0
              THEN dpc' = "analytics" /\ UNCHANGED <<skip, n_campaigns>>
              ELSE /\ n_campaigns' = Capped(n_campaigns + items)
                   /\ IF items < PageLimit
                         THEN dpc' = "analytics" /\ skip' = skip
                         ELSE dpc' = "campaigns"
                              /\ skip' = Capped(skip + PageLimit)
    /\ UNCHANGED <<starting_after, n_accounts, list_resp>>

\* The for loop over campaigns: one request for each campaign gathered.
CampaignAnalyticsLoop ==
    /\ dpc = "analytics"
    /\ dpc' = "accounts"
    /\ UNCHANGED <<skip, n_campaigns, starting_after, n_accounts, list_resp>>

\* client.request("GET", "/accounts", params=params), params holding
\* starting_after when it is truthy.
RequestAccounts ==
    /\ dpc = "accounts"
    /\ list_resp' \in ListResponses
    /\ dpc' = "accounts_items"
    /\ UNCHANGED <<skip, n_campaigns, starting_after, n_accounts>>

\* The rest of one pass of the accounts loop.
AccountsPage ==
    /\ dpc = "accounts_items"
    /\ LET items == ItemsOf(list_resp)
       IN  IF items = 0
              THEN dpc' = "account_analytics"
                   /\ UNCHANGED <<starting_after, n_accounts>>
              ELSE /\ n_accounts' = Capped(n_accounts + items)
                   /\ IF list_resp.type = "dict" /\ Truthy(list_resp.next_starting_after)
                         THEN dpc' = "accounts"
                              /\ starting_after' = list_resp.next_starting_after
                         ELSE dpc' = "account_analytics"
                              /\ starting_after' = starting_after
    /\ UNCHANGED <<skip, n_campaigns, list_resp>>

\* The account analytics request and the return.
ReturnData ==
    /\ dpc = "account_analytics"
    /\ dpc' = "done"
    /\ UNCHANGED <<skip, n_campaigns, starting_after, n_accounts, list_resp>>

\* client.request raises (HTTP error, timeout): fetch_all_data has no
\* handler and the exception leaves it.
RequestRaises ==
    /\ dpc \in {"campaigns", "analytics", "accounts", "account_analytics"}
    /\ dpc' = "raised"
    /\ UNCHANGED <<skip, n_campaigns, starting_after, n_accounts, list_resp>>
-----------------------------------------------------------------------------
(* Specifications                                                          *)

\* The state of a function that is not called.
FetchIdle ==
    /\ max_pages = 0
    /\ initial_params = PyNone
    /\ all_items = <<>>
    /\ cursor = PyNone
    /\ page = 1
    /\ fpc = "idle"
    /\ requests = <<>>
    /\ responses = <<>>
    /\ failed = <<>>
    /\ fetch_result = [kind |-> "none"]

CatIdle == email = <<>> /\ provider = "idle"

AnalyzeIdle ==
    /\ test_results = EmptyDict
    /\ recipients = PyNone
    /\ provider_stats = [p \in Providers |-> ZeroStats]
    /\ idx = 1
    /\ apc = "idle"
    /\ analyze_result = [kind |-> "none"]

ReportIdle ==
    /\ campaigns = <<>>
    /\ campaign_analytics = CampaignAnalytics(<<>>)
    /\ accounts = <<>>
    /\ account_analytics = PyList(<<>>)
    /\ today = Date(1, 1, 1)
    /\ rpc = "idle"
    /\ year_data = [y \in {} |-> [k \in {} |-> ZeroCounters]]
    /\ all_time_totals = ZeroCounters
    /\ week_camp_data = <<>>
    /\ agent_data = <<>>
    /\ sheet = NoTabs
    /\ worksheets = [t \in TabNames |-> "absent"]
    /\ digest = [kind |-> "none"]

DataIdle ==
    /\ dpc = "idle"
    /\ skip = 0
    /\ n_campaigns = 0
    /\ starting_after = PyNone
    /\ n_accounts = 0
    /\ list_resp = NoResponse

InitFetch ==
    /\ max_pages \in 0..MaxPagesBound
    /\ initial_params \in InitialParamsValues
    /\ InitFetchLocals
    /\ CatIdle
    /\ AnalyzeIdle
    /\ ReportIdle
    /\ DataIdle

NextFetch ==
    \/ (Request /\ UNCHANGED <<catVars, anaVars, repVars, dataVars>>)
    \/ (LoopEnd /\ UNCHANGED <<catVars, anaVars, repVars, dataVars>>)
    \/ (Respond /\ UNCHANGED <<catVars, anaVars, repVars, dataVars>>)
    \/ (RespondText /\ UNCHANGED <<catVars, anaVars, repVars, dataVars>>)
    \/ (Raise /\ UNCHANGED <<catVars, anaVars, repVars, dataVars>>)
    \/ (Return /\ UNCHANGED <<catVars, anaVars, repVars, dataVars>>)

SpecFetch == InitFetch /\ [][NextFetch]_vars

\* The interpreter keeps running the function, and every client.request call
\* returns or raises (the transport sets timeout=30).
FairSpecFetch == SpecFetch /\ WF_vars(NextFetch)

InitCat ==
    /\ email \in EmailInputs
    /\ provider = "pending"
    /\ FetchIdle
    /\ AnalyzeIdle
    /\ ReportIdle
    /\ DataIdle

NextCat == Categorize /\ UNCHANGED <<fetchVars, anaVars, repVars, dataVars>>

SpecCat == InitCat /\ [][NextCat]_vars

InitAnalyze ==
    /\ test_results \in TestResultsValues
    /\ InitAnalyzeLocals
    /\ FetchIdle
    /\ CatIdle
    /\ ReportIdle
    /\ DataIdle

NextAnalyze ==
    \/ (ReturnNone /\ UNCHANGED <<fetchVars, catVars, repVars, dataVars>>)
    \/ (ReadRecipients /\ UNCHANGED <<fetchVars, catVars, repVars, dataVars>>)
    \/ (IterateNone /\ UNCHANGED <<fetchVars, catVars, repVars, dataVars>>)
    \/ (ProcessRecipient /\ UNCHANGED <<fetchVars, catVars, repVars, dataVars>>)
    \/ (ProcessRecipientRaises /\ UNCHANGED <<fetchVars, catVars, repVars, dataVars>>)
    \/ (ReturnBreakdown /\ UNCHANGED <<fetchVars, catVars, repVars, dataVars>>)

SpecAnalyze == InitAnalyze /\ [][NextAnalyze]_vars

\* main, after fetch_all_data: the campaigns data varies with a roster of
\* one account that sent nothing, or the accounts data varies with the Acme
\* campaign alone.
InitReport ==
    /\ \/ /\ campaigns \in CampaignLists
          /\ campaign_analytics \in CampaignAnalyticsValues
          /\ accounts = << Account(TRUE, "a@x.io") >>
          /\ account_analytics = PyList(<<>>)
       \/ /\ campaigns = << Campaign("c2", TRUE, Acme) >>
          /\ campaign_analytics = CampaignAnalytics(<<>>)
          /\ accounts \in AccountLists
          /\ account_analytics \in AccountAnalyticsValues
    /\ today \in TodayValues
    /\ worksheets \in WorksheetsValues
    /\ InitReportLocals
    /\ FetchIdle
    /\ CatIdle
    /\ AnalyzeIdle
    /\ DataIdle

NextReport ==
    \/ (create_master_dashboard /\ UNCHANGED <<fetchVars, catVars, anaVars, dataVars>>)
    \/ (create_campaigns_tab /\ UNCHANGED <<fetchVars, catVars, anaVars, dataVars>>)
    \/ (create_agents_tab /\ UNCHANGED <<fetchVars, catVars, anaVars, dataVars>>)
    \/ (EmailDigest /\ UNCHANGED <<fetchVars, catVars, anaVars, dataVars>>)

SpecReport == InitReport /\ [][NextReport]_vars

InitFetchData ==
    /\ InitFetchDataLocals
    /\ FetchIdle
    /\ CatIdle
    /\ AnalyzeIdle
    /\ ReportIdle

NextFetchData ==
    \/ (RequestCampaigns /\ UNCHANGED <<fetchVars, catVars, anaVars, repVars>>)
    \/ (CampaignsPage /\ UNCHANGED <<fetchVars, catVars, anaVars, repVars>>)
    \/ (CampaignAnalyticsLoop /\ UNCHANGED <<fetchVars, catVars, anaVars, repVars>>)
    \/ (RequestAccounts /\ UNCHANGED <<fetchVars, catVars, anaVars, repVars>>)
    \/ (AccountsPage /\ UNCHANGED <<fetchVars, catVars, anaVars, repVars>>)
    \/ (ReturnData /\ UNCHANGED <<fetchVars, catVars, anaVars, repVars>>)
    \/ (RequestRaises /\ UNCHANGED <<fetchVars, catVars, anaVars, repVars>>)

SpecFetchData == InitFetchData /\ [][NextFetchData]_vars

\* The interpreter keeps running fetch_all_data, and every client.request
\* call returns or raises (the transport sets timeout=30); what the
\* endpoint answers is left free.
FairSpecFetchData == SpecFetchData /\ WF_vars(NextFetchData)

\* create_campaigns_tab called on two daily records of campaign c1, in date
\* order as the API returns them, of any two days from the week before the
\* target year to the week after it.
WeekDates ==
    { FromOrdinal(o) :
        o \in ToOrdinal(Date(target_year - 1, 12, 25))
                ..ToOrdinal(Date(target_year + 1, 1, 7)) }

TwoDays ==
    { p \in WeekDates \X WeekDates : ToOrdinal(p[1]) <= ToOrdinal(p[2]) }

TwoDayAnalytics ==
    { CampaignAnalytics(
        << [id |-> "c1", day |-> DayRecord(AllFields, p[1], 3, 3, 1, 0)],
           [id |-> "c1", day |-> DayRecord(AllFields, p[2], 5, 4, 0, 1)] >>) :
        p \in TwoDays }

InitCampaignsTab ==
    /\ campaigns = << Campaign("c1", TRUE, Beta), Campaign("c2", TRUE, Acme) >>
    /\ campaign_analytics \in TwoDayAnalytics
    /\ accounts = <<>>
    /\ account_analytics = PyList(<<>>)
    /\ today = Date(target_year + 1, 1, 7)
    /\ worksheets = [t \in TabNames |-> "absent"]
    /\ rpc = "campaigns"
    /\ year_data = [y \in {} |-> [k \in {} |-> ZeroCounters]]
    /\ all_time_totals = ZeroCounters
    /\ week_camp_data = <<>>
    /\ agent_data = <<>>
    /\ sheet = NoTabs
    /\ digest = [kind |-> "none"]
    /\ FetchIdle
    /\ CatIdle
    /\ AnalyzeIdle
    /\ DataIdle

NextCampaignsTab ==
    create_campaigns_tab /\ UNCHANGED <<fetchVars, catVars, anaVars, dataVars>>

SpecCampaignsTab == InitCampaignsTab /\ [][NextCampaignsTab]_vars

\* Any one of the functions, called once.
Init ==
    \/ InitFetch \/ InitCat \/ InitAnalyze \/ InitReport \/ InitFetchData
    \/ InitCampaignsTab

Next == NextFetch \/ NextCat \/ NextAnalyze \/ NextReport \/ NextFetchData

Spec == Init /\ [][Next]_vars

-----------------------------------------------------------------------------
(* Properties of fetch_all_paginated                                       *)

\* The items of the i-th response (a JSON object).
ItemsOfResponse(i) == Get(responses[i].value, "items", <<>>)

\* The continuation cursor of the i-th response (a JSON object).
CursorOfResponse(i) == Get(responses[i].value, "next_starting_after", PyNone)

IsPage(i) == responses[i].type = "dict"

\* The items of the first n responses, one page after the other.
RECURSIVE ConcatPages(_)
ConcatPages(n) == IF n = 0 THEN <<>> ELSE ConcatPages(n - 1) \o ItemsOfResponse(n)

\* Every response so far was a non-empty page with a continuation cursor.
AlwaysContinuing ==
    \A i \in 1..Len(responses) :
        /\ IsPage(i)
        /\ ItemsOfResponse(i) # <<>>
        /\ CursorOfResponse(i).type = "str"
        /\ CursorOfResponse(i).value # ""

FetchTerminated == fpc \in {"done", "raised"}

\* C1: fetch_all_paginated terminates whatever the endpoint answers, never
\* issues more than max_pages requests, and against an endpoint that always
\* answers a non-empty page with a continuation cursor it returns after
\* exactly max_pages requests.
C1_TerminatesWithinMaxPages ==
    /\ <>FetchTerminated
    /\ [](Len(requests) <= max_pages)
    /\ []((fpc = "done" /\ AlwaysContinuing) => Len(requests) = max_pages)

C1_Witness ==
    /\ fpc = "done"
    /\ max_pages = MaxPagesBound
    /\ Len(responses) = max_pages
    /\ AlwaysContinuing
    /\ Len(requests) = max_pages

\* C2: once a page with zero items has been received, it is the last
\* response, no request follows it, and the function returns exactly the
\* items of the pages before it.
C2_EmptyPageStops ==
    \A i \in 1..Len(responses) :
        (IsPage(i) /\ ItemsOfResponse(i) = <<>>) =>
            /\ i = Len(responses)
            /\ Len(requests) = i
            /\ fpc \in {"exit", "done"}
            /\ all_items = ConcatPages(i - 1)
            /\ fpc = "done" =>
                  fetch_result = [kind |-> "value", value |-> ConcatPages(i - 1)]

C2_Witness ==
    /\ fpc = "done"
    /\ max_pages = 3
    /\ Len(responses) = 2
    /\ IsPage(2)
    /\ "items" \in DOMAIN responses[2].value
    /\ ItemsOfResponse(2) = <<>>
    /\ CursorOfResponse(2) = PyStr("c1")
    /\ Len(requests) = 2
    /\ fetch_result = [kind |-> "value", value |-> <<"b", "a">>]

\* C3: the first request carries the initial parameters and no cursor of the
\* loop, every later request carries as starting_after the
\* next_starting_after of the response just before it, and a response without
\* a continuation cursor is followed by no request.
C3_CursorChain ==
    /\ Len(requests) >= 1 =>
          requests[1] = (IF initial_params.type = "dict"
                            THEN initial_params.value ELSE EmptyDict)
    /\ \A i \in 2..Len(requests) :
          /\ "starting_after" \in DOMAIN requests[i]
          /\ requests[i]["starting_after"] = CursorOfResponse(i - 1)
          /\ \A k \in DOMAIN requests[i] \ {"starting_after"} :
                /\ initial_params.type = "dict"
                /\ k \in DOMAIN initial_params.value
                /\ requests[i][k] = initial_params.value[k]
    /\ \A i \in 1..Len(responses) :
          (IsPage(i) /\ CursorOfResponse(i) \in {PyNone, PyStr("")}) =>
              Len(requests) = i

C3_Witness ==
    /\ Len(requests) = 3
    /\ initial_params.type = "dict"
    /\ "starting_after" \in DOMAIN initial_params.value
    /\ requests[1]["starting_after"] = PyStr("c0")
    /\ requests[2]["starting_after"] = PyStr("c2")
    /\ requests[3]["starting_after"] = PyStr("c1")
    /\ Len(responses) = 3
    /\ IsPage(3)
    /\ CursorOfResponse(3) = PyNone
    /\ ItemsOfResponse(3) # <<>>
    /\ max_pages = 4
    /\ fpc = "done"

\* C4: the list returned is the concatenation, in request order, of the items
\* of every page fetched, each page in response order, duplicates kept.
C4_ReturnsConcatenation ==
    /\ (\A i \in 1..Len(responses) : IsPage(i)) =>
          all_items = ConcatPages(Len(responses))
    /\ fpc = "done" =>
          fetch_result = [kind |-> "value", value |-> ConcatPages(Len(responses))]

C4_Witness ==
    /\ fpc = "done"
    /\ Len(responses) = 3
    /\ fetch_result = [kind |-> "value", value |-> <<"b", "a", "a", "b", "a">>]

\* C5: when client.request raises, the error reaches the caller, the failing
\* request is the last request made, and no list is returned.
C5_TransportErrorPropagates ==
    failed # <<>> =>
        /\ failed = <<Len(requests)>>
        /\ Len(responses) = Len(requests) - 1
        /\ fpc = "raised"
        /\ fetch_result = [kind |-> "error", error |-> "TransportError"]

C5_Witness ==
    /\ failed = <<3>>
    /\ all_items = <<"a", "b", "a">>
    /\ fetch_result.kind = "error"

-----------------------------------------------------------------------------
(* Properties of categorize_email_provider                                 *)

\* categorize_email_provider has returned.
Categorized == provider \notin {"idle", "pending"}

HasAt(e) == \E i \in 1..Len(e) : e[i] = "@"

\* The position of the last '@' of e, 0 when there is none.
LastAt(e) ==
    IF HasAt(e)
       THEN CHOOSE i \in 1..Len(e) :
               e[i] = "@" /\ \A j \in (i + 1)..Len(e) : e[j] # "@"
       ELSE 0

\* c and d are the same character up to letter case.
SameLetter(c, d) ==
    \/ c = d
    \/ \E i \in 1..26 : {c, d} = {UpperLetters[i], LowerLetters[i]}

\* The text of e after its last '@' reads as the lower-case text t once
\* letter case is ignored.
DomainReads(e, t) ==
    /\ Len(e) - LastAt(e) = Len(t)
    /\ \A k \in 1..Len(t) : SameLetter(e[LastAt(e) + k], t[k])

\* Some stretch of the text of e after its last '@' reads as t once letter
\* case is ignored.
DomainMatches(e, t) ==
    \E i \in (LastAt(e) + 1)..(Len(e) - Len(t) + 1) :
        \A k \in 1..Len(t) : SameLetter(e[i + k - 1], t[k])

MatchesGoogle(e)    == \E t \in GoogleDomains : DomainMatches(e, t)
MatchesMicrosoft(e) == \E t \in MicrosoftDomains : DomainMatches(e, t)
MatchesYahoo(e)     == \E t \in YahooDomains : DomainMatches(e, t)

\* C6: for every string with an '@' the result is one of the four buckets,
\* and it is Google when the domain is gmail.com in any letter case.
C6_TotalAndGmail ==
    (Categorized /\ HasAt(email)) =>
        /\ provider \in Providers
        /\ DomainReads(email, StrGmailCom) => provider = "Google"

C6_Witness ==
    /\ provider = "Google"
    /\ HasAt(email)
    /\ DomainReads(email, StrGmailCom)
    /\ email[Len(email)] = "M"
    /\ LastAt(email) > 1

\* C7: a string without any '@' is categorized Others.
C7_NoAtIsOthers ==
    (Categorized /\ ~HasAt(email)) => provider = "Others"

\* C8: the rules are applied to the lower-cased text after the last '@' in
\* the order Google, Microsoft, Yahoo: a Google match wins over Microsoft and
\* Yahoo matches, a Microsoft match without a Google match wins over a Yahoo
\* match, and a domain matching nothing is Others.
C8_PriorityOrder ==
    Categorized =>
        /\ MatchesGoogle(email) => provider = "Google"
        /\ (~MatchesGoogle(email) /\ MatchesMicrosoft(email)) =>
              provider = "Microsoft"
        /\ (~MatchesGoogle(email) /\ ~MatchesMicrosoft(email)
               /\ MatchesYahoo(email)) => provider = "Yahoo"
        /\ (~MatchesGoogle(email) /\ ~MatchesMicrosoft(email)
               /\ ~MatchesYahoo(email)) => provider = "Others"

C8_Witness ==
    /\ provider = "Google"
    /\ HasAt(email)
    /\ MatchesGoogle(email)
    /\ MatchesMicrosoft(email)
    /\ DomainMatches(email, StrHotmail)
    /\ email[Len(email)] = "M"

-----------------------------------------------------------------------------
(* Properties of analyze_provider_breakdown                                *)

AnalyzeReturned == apc = "done" /\ analyze_result.kind = "value"

ReturnedNull == AnalyzeReturned /\ analyze_result.value = PyNone

ReturnedMapping == AnalyzeReturned /\ analyze_result.value.type = "dict"

EmptyRecipients ==
    /\ "recipients" \in DOMAIN test_results
    /\ test_results["recipients"] = PyList(<<>>)

\* C9, as stated: null is returned exactly when the input has no recipients
\* collection, and an empty recipients collection gives a non-null result
\* that carries all-zero stats, that is a stats entry, all zero, for each
\* provider.
C9_EmptyGivesAllZeroStats ==
    /\ ReturnedNull => "recipients" \notin DOMAIN test_results
    /\ (apc # "start" /\ "recipients" \notin DOMAIN test_results) => ReturnedNull
    /\ (AnalyzeReturned /\ EmptyRecipients) =>
          /\ ReturnedMapping
          /\ \A p \in Providers :
                /\ p \in DOMAIN analyze_result.value.value
                /\ analyze_result.value.value[p].total = 0
                /\ analyze_result.value.value[p].inbox_count = 0
                /\ analyze_result.value.value[p].spam_count = 0
                /\ analyze_result.value.value[p].other_count = 0

\* C9, amended: null is returned exactly when the input has no 'recipients'
\* key, and an empty recipients list gives a non-null result, the empty
\* mapping: no provider appears in it, so it carries no stats.
C9_EmptyGivesEmptyMapping ==
    /\ ReturnedNull => "recipients" \notin DOMAIN test_results
    /\ (apc # "start" /\ "recipients" \notin DOMAIN test_results) => ReturnedNull
    /\ (apc \in {"done", "raised"} /\ EmptyRecipients) =>
          /\ ReturnedMapping
          /\ DOMAIN analyze_result.value.value = {}

C9_Witness ==
    /\ AnalyzeReturned
    /\ EmptyRecipients
    /\ analyze_result.value = PyDict(EmptyDict)

\* The email the loop categorizes for the recipient r (a string or a record).
CategorizedEmail(r) ==
    IF r.type = "str" THEN r.value ELSE Get(r.value, "email", PyStr(<<>>)).value

\* The recipients categorized into the bucket p.
RecipientsOf(p) ==
    { i \in 1..Len(test_results["recipients"].value) :
        LET r == test_results["recipients"].value[i]
        IN  /\ r.type \in {"str", "dict"}
            /\ categorize_email_provider(CategorizedEmail(r)) = p }

\* C10: a provider is a key of the returned mapping if and only if at least
\* one recipient, bare string or record, was categorized into it.
C10_BucketIffRecipient ==
    ReturnedMapping =>
        \A p \in Providers :
            p \in DOMAIN analyze_result.value.value <=> RecipientsOf(p) # {}

C10_Witness ==
    /\ ReturnedMapping
    /\ Len(test_results["recipients"].value) = 3
    /\ test_results["recipients"].value[1] = PyInt(7)
    /\ test_results["recipients"].value[2] = PyStr(EmMicrosoft)
    /\ test_results["recipients"].value[3].type = "dict"
    /\ DOMAIN analyze_result.value.value = {"Microsoft", "Others"}
    /\ analyze_result.value.value["Microsoft"].total = 1
    /\ analyze_result.value.value["Microsoft"].inbox_count = 0
    /\ analyze_result.value.value["Others"].inbox_count = 1

\* The word w occurs in the text s, letters compared without regard to case.
HasWord(w, s) ==
    \E k \in 0..(Len(s) - Len(w)) :
        \A j \in 1..Len(w) : SameLetter(s[k + j], w[j])

\* The placement count a record-shaped recipient belongs to: a missing
\* placement reads as the text "other".
PlacedAs(r) ==
    LET pl == IF "placement" \in DOMAIN r.value THEN r.value["placement"].value
              ELSE StrOther
    IN  IF HasWord(StrInbox, pl) THEN "inbox"
        ELSE IF HasWord(StrSpam, pl) THEN "spam"
        ELSE "other"

\* The recipients the loop has passed that went to provider p: the records
\* counted as c, and the bare strings.
PassedRecords(p, c) ==
    { i \in 1..(idx - 1) :
        LET r == recipients.value[i]
        IN  /\ r.type = "dict"
            /\ categorize_email_provider(CategorizedEmail(r)) = p
            /\ PlacedAs(r) = c }

PassedStrings(p) ==
    { i \in 1..(idx - 1) :
        LET r == recipients.value[i]
        IN  /\ r.type = "str"
            /\ categorize_email_provider(r.value) = p }

\* C11: every record-shaped recipient adds one to exactly one of the inbox,
\* spam and other counts of its provider: inbox when its placement contains
\* "inbox" in any letter case (also when it contains "spam" too), spam when
\* it contains "spam" and not "inbox", other for the rest and for a record
\* with no placement; a bare-string recipient adds to total only.
C11_OnePlacementCountPerRecord ==
    (apc \in {"loop", "done", "raised"} /\ recipients.type = "list") =>
        \A p \in Providers :
            /\ provider_stats[p].inbox = Cardinality(PassedRecords(p, "inbox"))
            /\ provider_stats[p].spam = Cardinality(PassedRecords(p, "spam"))
            /\ provider_stats[p].other = Cardinality(PassedRecords(p, "other"))
            /\ provider_stats[p].total =
                  provider_stats[p].inbox + provider_stats[p].spam
                  + provider_stats[p].other + Cardinality(PassedStrings(p))

C11_Witness ==
    /\ apc = "done"
    /\ recipients.type = "list"
    /\ Len(recipients.value) = 3
    /\ recipients.value[1] =
          RecipientDict(TRUE, PyStr(EmYahoo), TRUE,
                        PyStr(<<"S", "p", "a", "m", "/", "I", "N", "B", "O", "X">>))
    /\ recipients.value[2] = RecipientDict(TRUE, PyStr(EmGoogle), FALSE, PyNone)
    /\ recipients.value[3] = PyStr(EmGoogle)
    /\ provider_stats["Yahoo"] = [total |-> 1, inbox |-> 1, spam |-> 0, other |-> 0]
    /\ provider_stats["Google"] = [total |-> 2, inbox |-> 0, spam |-> 0, other |-> 1]

-----------------------------------------------------------------------------
(* Properties of create_master_dashboard                                   *)

\* The counters of the aggregates and the field of a daily record each one
\* sums.
CounterFields ==
    [ sent          |-> "sent",
      new_leads     |-> "new_leads_contacted",
      replies       |-> "unique_replies",
      opportunities |-> "opportunities" ]

Counters == DOMAIN CounterFields

\* The daily records of the input: campaign id and position.
InputRecords ==
    UNION { { <<id, j>> : j \in 1..Len(campaign_analytics[id]) } :
              id \in DOMAIN campaign_analytics }

DayOf(r) == campaign_analytics[r[1]][r[2]]

\* The input records that carry a date.
DatedRecords == { r \in InputRecords : "date" \in DOMAIN DayOf(r) }

\* The sum over the records R of the field a counter sums, a record that
\* lacks the field counting for 0.
RECURSIVE SumOfRecords(_, _)
SumOfRecords(R, counter) ==
    IF R = {} THEN 0
    ELSE LET r == CHOOSE x \in R : TRUE
         IN  (IF CounterFields[counter] \in DOMAIN DayOf(r)
                 THEN DayOf(r)[CounterFields[counter]] ELSE 0)
             + SumOfRecords(R \ {r}, counter)

\* The (year, month) buckets of year_data.
MonthBuckets ==
    UNION { { <<y, k>> : k \in DOMAIN year_data[y] } : y \in DOMAIN year_data }

\* The sum of a counter over the month buckets B.
RECURSIVE SumOfMonths(_, _)
SumOfMonths(B, counter) ==
    IF B = {} THEN 0
    ELSE LET b == CHOOSE x \in B : TRUE
         IN  year_data[b[1]][b[2]][counter] + SumOfMonths(B \ {b}, counter)

\* Every campaign id is listed once in data['campaigns'].
ListedOnce ==
    \A i, j \in 1..Len(campaigns) : campaigns[i]["id"] = campaigns[j]["id"] => i = j

DashboardBuilt == rpc \in {"campaigns", "agents", "digest", "done", "raised"}

\* C12: with every campaign listed once, for each of sent, new_leads,
\* replies and opportunities the sum of the monthly aggregates over all
\* (year, month) buckets equals the all-time total, and both equal the sum
\* of the field over all input records that carry a date.
C12_MonthlySumsEqualAllTime ==
    (DashboardBuilt /\ ListedOnce) =>
        \A c \in Counters :
            /\ SumOfMonths(MonthBuckets, c) = all_time_totals[c]
            /\ all_time_totals[c] = SumOfRecords(DatedRecords, c)

C12_Witness ==
    /\ DashboardBuilt
    /\ ListedOnce
    /\ Cardinality(InputRecords) = 3
    /\ Cardinality(DatedRecords) = 2
    /\ DOMAIN year_data = {2024, 2026}
    /\ all_time_totals = [sent |-> 4, new_leads |-> 7, replies |-> 0,
                          opportunities |-> 0]

DashboardWritten == "Master Dashboard" \in DOMAIN sheet

\* The rows written to the Master Dashboard tab.
MasterTab == sheet["Master Dashboard"]

\* The positions of the month section title rows.
SectionTitles ==
    { i \in 1..Len(MasterTab) :
        MasterTab[i].kind = "section" /\ MasterTab[i].text = "PERFORMANCE BY MONTH" }

\* The positions of the month rows of the section whose title row is at i:
\* those before the next section title.
MonthRowsOf(i) ==
    { j \in (i + 1)..Len(MasterTab) :
        /\ MasterTab[j].kind = "month"
        /\ \A k \in SectionTitles : k <= i \/ k > j }

\* The years and the months of a year that have a dated record in the data.
YearsInData == { DayOf(r)["date"].year : r \in DatedRecords }

MonthsInData(y) ==
    { DayOf(r)["date"].month : r \in { x \in DatedRecords : DayOf(x)["date"].year = y } }

\* The title and all-time rows come first.
TitleAndAllTimeFirst ==
    /\ MasterTab[1] = [kind |-> "title", text |-> "MASTER DASHBOARD"]
    /\ MasterTab[2].kind = "section" /\ MasterTab[2].text = "ALL TIME PERFORMANCE"
    /\ MasterTab[4].kind = "all_time"
    /\ \A i \in SectionTitles : i > 5

\* The sections are in descending year order.
SectionsDescending ==
    \A i, j \in SectionTitles : i < j => MasterTab[i].year > MasterTab[j].year

\* The month rows of every section are the months of its year that have
\* records, one row each, in ascending calendar order.
MonthRowsAscending ==
    \A i \in SectionTitles :
        /\ Cardinality(MonthRowsOf(i)) = Cardinality(MonthsInData(MasterTab[i].year))
        /\ \A m \in MonthsInData(MasterTab[i].year) :
              \E j \in MonthRowsOf(i) : MasterTab[j].month = MonthNames[m]
        /\ \A j, k \in MonthRowsOf(i) :
              j < k => \E a, b \in 1..12 :
                          /\ a < b
                          /\ MasterTab[j].month = MonthNames[a]
                          /\ MasterTab[k].month = MonthNames[b]

\* C17, as stated: after the title and all-time rows the master summary
\* has one month section for every year present in the data, the sections
\* in descending year order, the month rows of each section in ascending
\* calendar order, one row per month that has records.
C17_SectionForEveryYear ==
    DashboardWritten =>
        /\ TitleAndAllTimeFirst
        /\ \A y \in YearsInData :
              Cardinality({ i \in SectionTitles : MasterTab[i].year = y }) = 1
        /\ \A i \in SectionTitles : MasterTab[i].year \in YearsInData
        /\ SectionsDescending
        /\ MonthRowsAscending

\* C17, amended: after the title and all-time rows the master summary has
\* one month section for each of the years 2026 and 2025 that is present
\* in the data and no section for any other year (the records of 2024
\* count in the all-time row only), the 2026 section before the 2025 one,
\* the month rows of each section in ascending calendar order, one row
\* per month that has records.
C17_SectionFor2026And2025 ==
    DashboardWritten =>
        /\ TitleAndAllTimeFirst
        /\ \A y \in YearsInData \cap {2026, 2025} :
              Cardinality({ i \in SectionTitles : MasterTab[i].year = y }) = 1
        /\ \A i \in SectionTitles : MasterTab[i].year \in YearsInData \cap {2026, 2025}
        /\ SectionsDescending
        /\ MonthRowsAscending

C17_Witness ==
    /\ DashboardWritten
    /\ ListedOnce
    /\ YearsInData = {2024, 2025, 2026}
    /\ Cardinality(SectionTitles) = 2
    /\ MasterTab[6].kind = "section" /\ MasterTab[6].year = 2026
    /\ MasterTab[8].kind = "month" /\ MasterTab[8].month = "January"
    /\ MasterTab[10].kind = "section" /\ MasterTab[10].year = 2025
    /\ MasterTab[12].kind = "month" /\ MasterTab[12].month = "December"
    /\ Len(MasterTab) = 12

-----------------------------------------------------------------------------
(* Properties of create_campaigns_tab                                      *)

CampaignsBuilt == "Campaigns 2026" \in DOMAIN sheet

\* The rows written to the Campaigns tab.
CampaignsTab == sheet["Campaigns 2026"]

GrandTotalRow == CampaignsTab[Len(CampaignsTab)]

\* The per-week-per-campaign buckets of week_camp_data, by position.
WeekBuckets == 1..Len(week_camp_data)

\* The sum of a counter over the buckets B of week_camp_data.
RECURSIVE SumOfBuckets(_, _)
SumOfBuckets(B, counter) ==
    IF B = {} THEN 0
    ELSE LET b == CHOOSE x \in B : TRUE
         IN  week_camp_data[b].stats[counter] + SumOfBuckets(B \ {b}, counter)

\* The month buckets of the target year in year_data.
TargetYearMonths == { b \in MonthBuckets : b[1] = target_year }

\* C13: each of the four counters of the GRAND TOTAL (YTD) row equals the
\* sum of that counter over all per-week-per-campaign buckets of the target
\* year, which equals the sum of the target year's monthly aggregates of the
\* master dashboard.
C13_GrandTotalEqualsBucketsAndMonths ==
    CampaignsBuilt =>
        \A c \in Counters :
            /\ GrandTotalRow[c] = SumOfBuckets(WeekBuckets, c)
            /\ SumOfBuckets(WeekBuckets, c) = SumOfMonths(TargetYearMonths, c)

\* The weeks that have a bucket.
BucketWeeks == { week_camp_data[b].key[1] : b \in WeekBuckets }

BucketsOfWeek(w) == { b \in WeekBuckets : week_camp_data[b].key[1] = w }

\* The position of the label row of week w in the Campaigns tab.
LabelIndex(w) ==
    CHOOSE i \in 1..Len(CampaignsTab) :
        CampaignsTab[i].kind = "week" /\ CampaignsTab[i].label.week = w

\* The position of the first WEEKLY TOTAL row after the label row of week w.
TotalIndex(w) ==
    CHOOSE i \in (LabelIndex(w) + 1)..Len(CampaignsTab) :
        /\ CampaignsTab[i].kind = "weekly_total"
        /\ \A j \in (LabelIndex(w) + 1)..(i - 1) :
              CampaignsTab[j].kind # "weekly_total"

\* The positions of the campaign data rows of week w.
DataRowsOf(w) ==
    { i \in (LabelIndex(w) + 1)..(TotalIndex(w) - 1) :
        CampaignsTab[i].kind = "campaign" }

AllZero(stats) == stats.sent = 0 /\ stats.replies = 0 /\ stats.opportunities = 0

\* C14: a campaign-week bucket has a data row exactly when its sent,
\* replies and opportunities are not all zero, and every WEEKLY TOTAL row
\* equals, counter by counter, the sum over all the buckets of its week,
\* the suppressed ones included.
C14_SuppressedBucketsCountInTotals ==
    CampaignsBuilt =>
        /\ \A b \in WeekBuckets :
              (\E i \in DataRowsOf(week_camp_data[b].key[1]) :
                  CampaignsTab[i].name = week_camp_data[b].key[3])
              <=> ~AllZero(week_camp_data[b].stats)
        /\ \A w \in BucketWeeks : \A c \in Counters :
              CampaignsTab[TotalIndex(w)][c] = SumOfBuckets(BucketsOfWeek(w), c)

\* The Acme scenario: the only daily records are the two of the campaign
\* named Acme, of 2026-01-05 (sent 100, replies 5, opportunities 1) and of
\* 2026-01-12 (sent 50, replies 0, opportunities 0).
AcmeScenario ==
    /\ \E i \in 1..Len(campaigns) :
          /\ campaigns[i]["id"] = "c2"
          /\ "name" \in DOMAIN campaigns[i]
          /\ campaigns[i]["name"] = Acme
    /\ campaign_analytics =
          [ id \in {"c2"} |->
              << DayRecord(AllFields \ {"new_leads_contacted"},
                           Date(2026, 1, 5), 100, 0, 5, 1),
                 DayRecord(AllFields \ {"new_leads_contacted"},
                           Date(2026, 1, 12), 50, 0, 0, 0) >> ]

\* The week whose label row names the Monday of month m, day d.
WeekOfMonday(m, d) ==
    CampaignsTab[CHOOSE i \in 1..Len(CampaignsTab) :
                    /\ CampaignsTab[i].kind = "week"
                    /\ CampaignsTab[i].label.monday = <<m, d>>].label.week

\* C15, as stated: in the Acme scenario the report has exactly one data row
\* in the week of Jan 5, with reply 5.0% and opp 1.0%, no data row in the
\* week of Jan 12, and a grand total row with sent 150.
C15_AcmeSecondWeekSuppressed ==
    (CampaignsBuilt /\ AcmeScenario) =>
        /\ Cardinality(DataRowsOf(WeekOfMonday(1, 5))) = 1
        /\ \A i \in DataRowsOf(WeekOfMonday(1, 5)) :
              CampaignsTab[i].reply_pct = 50 /\ CampaignsTab[i].opp_pct = 10
        /\ DataRowsOf(WeekOfMonday(1, 12)) = {}
        /\ GrandTotalRow.sent = 150

\* C15, amended: in the Acme scenario the report has exactly one data row
\* in the week of Jan 5, with reply 5.0% and opp 1.0%, exactly one data row
\* in the week of Jan 12 too, with sent 50, reply 0.0% and opp 0.0% (its
\* sent is not 0, so the bucket is not suppressed), and a grand total row
\* with sent 150.
C15_AcmeBothWeeksShown ==
    (CampaignsBuilt /\ AcmeScenario) =>
        /\ Cardinality(DataRowsOf(WeekOfMonday(1, 5))) = 1
        /\ \A i \in DataRowsOf(WeekOfMonday(1, 5)) :
              /\ CampaignsTab[i].name = Acme
              /\ CampaignsTab[i].reply_pct = 50
              /\ CampaignsTab[i].opp_pct = 10
        /\ Cardinality(DataRowsOf(WeekOfMonday(1, 12))) = 1
        /\ \A i \in DataRowsOf(WeekOfMonday(1, 12)) :
              /\ CampaignsTab[i].name = Acme
              /\ CampaignsTab[i].sent = 50
              /\ CampaignsTab[i].reply_pct = 0
              /\ CampaignsTab[i].opp_pct = 0
        /\ GrandTotalRow.sent = 150

C15_Witness ==
    /\ CampaignsBuilt
    /\ AcmeScenario
    /\ Len(CampaignsTab) = 10
    /\ CampaignsTab[7].kind = "campaign"
    /\ CampaignsTab[7].sent = 50
    /\ GrandTotalRow.kind = "grand_total"
    /\ GrandTotalRow.sent = 150

-----------------------------------------------------------------------------
(* Properties of the ratios                                                *)

\* The rows written to the tabs so far.
WrittenRows ==
    UNION { { sheet[t][i] : i \in 1..Len(sheet[t]) } : t \in DOMAIN sheet }

\* C16: no ratio divides by zero. No step of the report raises
\* ZeroDivisionError; emails-per-opp is 0 in a month row whose opportunities
\* are 0; the reply and opp percentages are 0 in a campaign row, a WEEKLY
\* TOTAL row, the grand total row and the email digest when sent is 0;
\* avg-per-day is 0 in an agent row whose active_days is 0.
C16_NoDivisionByZero ==
    /\ rpc = "raised" => (digest.kind = "error" /\ digest.error = "KeyError")
    /\ \A row \in WrittenRows :
          /\ (row.kind = "month" /\ row.opportunities = 0) =>
                row.emails_per_opp = 0
          /\ (row.kind \in {"campaign", "weekly_total", "grand_total"}
              /\ row.sent = 0) =>
                (row.reply_pct = 0 /\ row.opp_pct = 0)
          /\ (row.kind = "agent" /\ row.active_days = 0) =>
                row.avg_per_day = 0
    /\ digest.kind = "value" =>
          /\ digest.week_sent = 0 =>
                (digest.week_reply_rate = 0 /\ digest.week_opp_rate = 0)
          /\ digest.all_time_sent = 0 =>
                (digest.all_time_reply_rate = 0 /\ digest.all_time_opp_rate = 0)

C16_Witness ==
    /\ rpc = "done"
    /\ \E row \in WrittenRows :
          row.kind = "month" /\ row.opportunities = 0 /\ row.sent > 0
    /\ \E row \in WrittenRows :
          row.kind = "campaign" /\ row.sent = 0 /\ row.replies = 1
    /\ \E row \in WrittenRows :
          row.kind = "weekly_total" /\ row.sent = 0 /\ row.replies = 1
    /\ \E row \in WrittenRows :
          row.kind = "agent" /\ row.active_days = 0 /\ row.avg_per_day = 0
    /\ digest.kind = "value"
    /\ digest.week_sent = 0
    /\ digest.week_replies = 1
    /\ digest.week_reply_rate = 0

-----------------------------------------------------------------------------
(* Properties of the layout of the Campaigns tab                           *)

\* The positions of the week label rows.
LabelRows == { i \in 1..Len(CampaignsTab) : CampaignsTab[i].kind = "week" }

\* The rows from the label row at i to the spacer row at t + 1 are one week
\* block: the label, campaign rows in lexicographic order of their names,
\* one WEEKLY TOTAL row, one spacer.
IsWeekBlock(i, t) ==
    /\ \A j \in (i + 1)..(t - 1) : CampaignsTab[j].kind = "campaign"
    /\ \A j, k \in (i + 1)..(t - 1) :
          j < k => StrLess(CampaignsTab[j].name, CampaignsTab[k].name)
    /\ CampaignsTab[t].kind = "weekly_total"
    /\ CampaignsTab[t + 1].kind = "spacer"

\* C18: after the column-header row the weekly-campaign report is a
\* sequence of week blocks, one per week that has a bucket, in strictly
\* ascending week number; a block is one week-label row, the campaign data
\* rows in lexicographic order of the campaign name, exactly one WEEKLY
\* TOTAL row and one spacer row; the last row is the single GRAND TOTAL
\* (YTD) row.
C18_WeekBlocksInOrder ==
    CampaignsBuilt =>
        /\ CampaignsTab[1].kind = "columns"
        /\ GrandTotalRow.kind = "grand_total"
        /\ \A i \in 1..(Len(CampaignsTab) - 1) :
              CampaignsTab[i].kind # "grand_total"
        /\ Len(CampaignsTab) > 2 => 2 \in LabelRows
        /\ { CampaignsTab[i].label.week : i \in LabelRows } = BucketWeeks
        /\ \A i, j \in LabelRows :
              i < j => CampaignsTab[i].label.week < CampaignsTab[j].label.week
        /\ \A i \in LabelRows :
              \E t \in (i + 1)..(Len(CampaignsTab) - 2) :
                  /\ IsWeekBlock(i, t)
                  /\ \/ t + 2 \in LabelRows
                     \/ t + 2 = Len(CampaignsTab)

C18_Witness ==
    /\ CampaignsBuilt
    /\ Len(CampaignsTab) = 11
    /\ LabelRows = {2, 6}
    /\ CampaignsTab[2].label.week = 2
    /\ CampaignsTab[6].label.week = 3
    /\ CampaignsTab[7].kind = "campaign" /\ CampaignsTab[7].name = Acme
    /\ CampaignsTab[8].kind = "campaign" /\ CampaignsTab[8].name = Beta
    /\ CampaignsTab[9].kind = "weekly_total"
    /\ CampaignsTab[10].kind = "spacer"
    /\ CampaignsTab[11].kind = "grand_total"

-----------------------------------------------------------------------------
(* Properties of create_agents_tab                                         *)

AgentsBuilt == "Agents" \in DOMAIN sheet

\* The rows written to the Agents tab, and the positions of its agent rows.
AgentsTab == sheet["Agents"]

AgentRowsAt == { i \in 1..Len(AgentsTab) : AgentsTab[i].kind = "agent" }

\* The daily records of the accounts analytics stream: none when the
\* response is not a list.
Stream == IF account_analytics.type = "list" THEN account_analytics.value ELSE <<>>

\* The positions in the stream of the daily records of the account em.
RecordsOfAccount(em) ==
    { i \in 1..Len(Stream) :
        "email_account" \in DOMAIN Stream[i] /\ Stream[i]["email_account"] = em }

SentOf(i) == IF "sent" \in DOMAIN Stream[i] THEN Stream[i]["sent"] ELSE 0

RECURSIVE SumOfSent(_)
SumOfSent(I) ==
    IF I = {} THEN 0
    ELSE LET i == CHOOSE x \in I : TRUE IN SentOf(i) + SumOfSent(I \ {i})

\* The emails of the stream and of the roster.
StreamEmails ==
    { Stream[i]["email_account"] :
        i \in { j \in 1..Len(Stream) : "email_account" \in DOMAIN Stream[j] } }

RosterEmails ==
    { accounts[i]["email"] :
        i \in { j \in 1..Len(accounts) : "email" \in DOMAIN accounts[j] } }

\* C19: every email of the analytics stream has an agent row whose
\* total_sent is the sum of sent over its daily records and whose
\* active_days is the number of its daily records with sent > 0; every
\* roster account whose email has no analytics record has a row with
\* total_sent 0 and active_days 0; no email has two rows.
C19_AgentTotalsAndRoster ==
    AgentsBuilt =>
        /\ \A em \in StreamEmails :
              \E i \in AgentRowsAt :
                  /\ AgentsTab[i].email = em
                  /\ AgentsTab[i].total_sent = SumOfSent(RecordsOfAccount(em))
                  /\ AgentsTab[i].active_days =
                        Cardinality({ r \in RecordsOfAccount(em) : SentOf(r) > 0 })
        /\ \A em \in RosterEmails \ StreamEmails :
              \E i \in AgentRowsAt :
                  /\ AgentsTab[i].email = em
                  /\ AgentsTab[i].total_sent = 0
                  /\ AgentsTab[i].active_days = 0
        /\ \A i, j \in AgentRowsAt :
              AgentsTab[i].email = AgentsTab[j].email => i = j

C19_Witness ==
    /\ AgentsBuilt
    /\ Len(Stream) = 3
    /\ StreamEmails = {"a@x.io", "b@x.io"}
    /\ Cardinality(RecordsOfAccount("a@x.io")) = 2
    /\ RosterEmails = {"a@x.io", "c@x.io", "d@x.io"}
    /\ \E i \in AgentRowsAt :
          /\ AgentsTab[i].email = "a@x.io"
          /\ AgentsTab[i].total_sent = 5
          /\ AgentsTab[i].active_days = 1
    /\ \E i \in AgentRowsAt :
          /\ AgentsTab[i].email = "d@x.io"
          /\ AgentsTab[i].total_sent = 0
          /\ AgentsTab[i].active_days = 0
    /\ Cardinality(AgentRowsAt) = 4

\* The emails in the order the code meets them: the stream, then the
\* roster.
Encountered ==
    [i \in 1..Len(Stream) |-> Get(Stream[i], "email_account", "")]
    \o [i \in 1..Len(accounts) |-> Get(accounts[i], "email", "")]

\* The position at which the email em is first met.
FirstMet(em) ==
    CHOOSE i \in 1..Len(Encountered) :
        /\ Encountered[i] = em
        /\ \A j \in 1..(i - 1) : Encountered[j] # em

\* C20: the agent rows are in non-increasing order of total_sent, and rows
\* of equal total_sent are in the order their emails were first met: first
\* appearance in the analytics stream, then the roster.
C20_AgentsSortedStable ==
    AgentsBuilt =>
        \A i, j \in AgentRowsAt :
            i < j =>
                /\ AgentsTab[i].total_sent >= AgentsTab[j].total_sent
                /\ AgentsTab[i].total_sent = AgentsTab[j].total_sent =>
                      FirstMet(AgentsTab[i].email) < FirstMet(AgentsTab[j].email)

C20_Witness ==
    /\ AgentsBuilt
    /\ Len(Stream) = 3
    /\ Stream[1] = AccountDay({"email_account", "sent"}, "b@x.io", 2)
    /\ Stream[2] = AccountDay({"email_account", "sent"}, "a@x.io", 5)
    /\ Stream[3] = AccountDay({"email_account"}, "c@x.io", 0)
    /\ Len(accounts) = 3
    /\ accounts[1]["email"] = "d@x.io"
    /\ Len(AgentsTab) = 6
    /\ AgentsTab[2].email = "a@x.io"
    /\ AgentsTab[3].email = "b@x.io"
    /\ AgentsTab[4].email = "c@x.io"
    /\ AgentsTab[5].email = "d@x.io"

AgentsTotalRow == AgentsTab[Len(AgentsTab)]

\* The sum of total_sent over the agent rows at the positions I.
RECURSIVE SumOfAgentRows(_)
SumOfAgentRows(I) ==
    IF I = {} THEN 0
    ELSE LET i == CHOOSE x \in I : TRUE
         IN  AgentsTab[i].total_sent + SumOfAgentRows(I \ {i})

\* A roster of one account, with an email, and no analytics record.
OneAccountNoAnalytics ==
    /\ Len(accounts) = 1
    /\ "email" \in DOMAIN accounts[1]
    /\ Stream = <<>>

\* C21: the last row of the Agents tab is the total row; it states the
\* number of agent rows, the sum of their total_sent and the number of them
\* with total_sent > 0. A roster of one account with no analytics record
\* gives exactly one agent row, with active_days 0, avg/day 0 and status
\* Inactive, and a total row with 0 Active.
C21_AgentsTotalRow ==
    AgentsBuilt =>
        /\ AgentsTotalRow.kind = "total"
        /\ \A i \in 1..(Len(AgentsTab) - 1) : AgentsTab[i].kind # "total"
        /\ AgentsTotalRow.agents = Cardinality(AgentRowsAt)
        /\ AgentsTotalRow.total_sent = SumOfAgentRows(AgentRowsAt)
        /\ AgentsTotalRow.active_count =
              Cardinality({ i \in AgentRowsAt : AgentsTab[i].total_sent > 0 })
        /\ OneAccountNoAnalytics =>
              /\ Cardinality(AgentRowsAt) = 1
              /\ \A i \in AgentRowsAt :
                    /\ AgentsTab[i].email = accounts[1]["email"]
                    /\ AgentsTab[i].active_days = 0
                    /\ AgentsTab[i].avg_per_day = 0
                    /\ AgentsTab[i].status = "Inactive"
              /\ AgentsTotalRow.active_count = 0

C21_Witness ==
    /\ AgentsBuilt
    /\ OneAccountNoAnalytics
    /\ Len(AgentsTab) = 3
    /\ AgentsTab[2].kind = "agent"
    /\ AgentsTab[2].status = "Inactive"
    /\ AgentsTotalRow = [kind |-> "total", agents |-> 1, total_sent |-> 0,
                         active_count |-> 0]

-----------------------------------------------------------------------------
(* Properties of the email digest                                          *)

DigestComputed == digest.kind = "value"

\* The date d lies in the Monday-to-Sunday span that contains the date t:
\* both have the same Monday.
SameMondayToSunday(d, t) ==
    \E a, b \in 0..6 :
        /\ (ToOrdinal(d) - a) % 7 = 1
        /\ (ToOrdinal(t) - b) % 7 = 1
        /\ ToOrdinal(d) - a = ToOrdinal(t) - b

\* The fetched daily records dated in the span that contains today.
CurrentWeekRecords ==
    { r \in DatedRecords : SameMondayToSunday(DayOf(r)["date"], today) }

\* C22: in the digest the current-week sent, replies and opportunities are
\* the sums over exactly the fetched daily records dated in the
\* Monday-to-Sunday span that contains today, the all-time figures are the
\* sums over every fetched daily record, and each current-week figure is at
\* most the matching all-time figure.
C22_DigestWeekAndAllTime ==
    DigestComputed =>
        /\ digest.week_sent = SumOfRecords(CurrentWeekRecords, "sent")
        /\ digest.week_replies = SumOfRecords(CurrentWeekRecords, "replies")
        /\ digest.week_opps = SumOfRecords(CurrentWeekRecords, "opportunities")
        /\ digest.all_time_sent = SumOfRecords(InputRecords, "sent")
        /\ digest.all_time_replies = SumOfRecords(InputRecords, "replies")
        /\ digest.all_time_opps = SumOfRecords(InputRecords, "opportunities")
        /\ digest.week_sent <= digest.all_time_sent
        /\ digest.week_replies <= digest.all_time_replies
        /\ digest.week_opps <= digest.all_time_opps

C22_Witness ==
    /\ DigestComputed
    /\ today = Date(2026, 2, 4)
    /\ Cardinality(InputRecords) = 3
    /\ Cardinality(CurrentWeekRecords) = 1
    /\ \E r \in InputRecords : DayOf(r)["date"] = Date(2026, 2, 1)
    /\ \E r \in InputRecords : DayOf(r)["date"] = Date(2026, 2, 3)
    /\ \E r \in InputRecords : DayOf(r)["date"] = Date(2026, 1, 5)
    /\ digest.week_sent = 10
    /\ digest.all_time_sent = 116

\* C23: every aggregation step (master dashboard, weekly-campaign tab,
\* agents tab, email digest) tolerates a daily record that lacks a field,
\* an absent date or absent opportunities included: no step fails, the
\* three tabs are written and the digest is computed.
C23_MissingFieldsTolerated ==
    /\ rpc # "raised"
    /\ digest.kind # "error"
    /\ rpc = "done" =>
          /\ DashboardWritten /\ CampaignsBuilt /\ AgentsBuilt
          /\ DigestComputed

\* ---------------------------------------------------------------------
\* Properties of the writing of the tabs
\* ---------------------------------------------------------------------

RunEnded == rpc \in {"done", "raised", "api_error"}

\* C24: for each of the three tabs the run never ends with the tab's
\* worksheet deleted, or recreated without its rows: a failure at any step
\* of building or writing a tab leaves no partial write of that tab.
C24_NoPartialTabWrite ==
    RunEnded =>
        \A tab \in TabNames : worksheets[tab] \notin {"deleted", "empty"}

\* ---------------------------------------------------------------------
\* Properties of fetch_all_data
\* ---------------------------------------------------------------------

\* C25: the campaign-list loop and the account-roster loop of
\* fetch_all_data each end after a bounded number of requests whatever the
\* endpoint answers: every run of fetch_all_data returns or raises.
C25_ListLoopsTerminate == <>(dpc \in {"done", "raised"})

\* ---------------------------------------------------------------------
\* Properties of the dashboard against the digest
\* ---------------------------------------------------------------------

\* C26: when the digest is computed (every fetched daily record has a
\* date), the all-time sent, replies and opportunities of the Master
\* Dashboard's all-time row equal those of the email digest of the same
\* run, also when the campaign list holds the same campaign id twice.
C26_DashboardEqualsDigest ==
    (DigestComputed /\ DashboardWritten) =>
        /\ MasterTab[4].sent = digest.all_time_sent
        /\ MasterTab[4].replies = digest.all_time_replies
        /\ MasterTab[4].opportunities = digest.all_time_opps

\* ---------------------------------------------------------------------
\* Properties of the week grouping
\* ---------------------------------------------------------------------

\* The daily records of the target year among the fetched ones.
TargetYearRecords ==
    { r \in DatedRecords : DayOf(r)["date"].year = target_year }

\* weeks of create_campaigns_tab: the buckets regrouped by week number.
WeeksOfBuckets == Weeks(week_camp_data, Len(week_camp_data))

\* create_campaigns_tab returned.
CampaignsGrouped == rpc = "agents"

\* C27: for target year 2026, two fetched records of that year with the
\* same ISO week number have the same Monday and the same week label; so
\* every (week_num, label, campaign) bucket is found again, with its own
\* label and its own counts, in the grouping by week_num alone, and the
\* counts of the groups add up to those of the records.
C27_SameWeekSameMonday ==
    CampaignsGrouped =>
        LET weeks == WeeksOfBuckets
        IN  /\ \A r1, r2 \in TargetYearRecords :
                  IsoCalendar(DayOf(r1)["date"]).week
                        = IsoCalendar(DayOf(r2)["date"]).week =>
                     LET w1 == get_week_info(DayOf(r1)["date"])
                         w2 == get_week_info(DayOf(r2)["date"])
                     IN  w1.start = w2.start /\ w1.label = w2.label
            /\ \A b \in WeekBuckets :
                  LET key == week_camp_data[b].key
                  IN  /\ key[1] \in DOMAIN weeks
                      /\ weeks[key[1]].label = key[2]
                      /\ key[3] \in DOMAIN weeks[key[1]].campaigns
                      /\ weeks[key[1]].campaigns[key[3]] = week_camp_data[b].stats
            /\ \A c \in Counters :
                  SumOfBuckets(WeekBuckets, c) = SumOfRecords(TargetYearRecords, c)

\* January 1st and 4th of 2026, both of ISO week 1 whose Monday is in
\* 2025: one bucket holding the counts of both records.
C27_Witness ==
    /\ CampaignsGrouped
    /\ \E r \in TargetYearRecords : DayOf(r)["date"] = Date(2026, 1, 1)
    /\ \E r \in TargetYearRecords : DayOf(r)["date"] = Date(2026, 1, 4)
    /\ BucketWeeks = {1}
    /\ Len(week_camp_data) = 1
    /\ WeeksOfBuckets[1].label.monday = <<12, 29>>
    /\ WeeksOfBuckets[1].campaigns[Beta].sent = 8

\* ---------------------------------------------------------------------
\* Properties of the returned breakdown
\* ---------------------------------------------------------------------

BreakdownReturned ==
    /\ apc = "done"
    /\ analyze_result.kind = "value"
    /\ analyze_result.value.type = "dict"

breakdown == analyze_result.value.value

\* breakdown[p]['total'], 0 for a provider the breakdown leaves out.
TotalIn(p) == IF p \in DOMAIN breakdown THEN breakdown[p].total ELSE 0

\* The recipients that are strings or records.
CountedRecipients ==
    { i \in 1..Len(recipients.value) :
        recipients.value[i].type \in {"str", "dict"} }

\* C28: for every provider of the returned breakdown, inbox_count +
\* spam_count + other_count is at most total, and equals it exactly when no
\* recipient of that provider was a bare string; the totals of all providers
\* add up to the number of recipients that are strings or records.
C28_CountsWithinTotal ==
    BreakdownReturned =>
        /\ \A p \in DOMAIN breakdown :
              LET e == breakdown[p]
              IN  /\ e.inbox_count + e.spam_count + e.other_count <= e.total
                  /\ (e.inbox_count + e.spam_count + e.other_count = e.total)
                        <=> (PassedStrings(p) = {})
        /\ TotalIn("Google") + TotalIn("Microsoft") + TotalIn("Yahoo")
              + TotalIn("Others") = Cardinality(CountedRecipients)

\* A bare Google address, a Google record and a value that is neither.
C28_Witness ==
    /\ BreakdownReturned
    /\ recipients.value =
          << PyStr(EmGoogle),
             RecipientDict(TRUE, PyStr(EmGoogle), TRUE,
                           PyStr(<<"I", "n", "b", "o", "x">>)),
             PyInt(7) >>
    /\ DOMAIN breakdown = {"Google"}
    /\ breakdown["Google"].total = 2
    /\ breakdown["Google"].inbox_count = 1
    /\ breakdown["Google"].spam_count = 0
    /\ breakdown["Google"].other_count = 0

====
